---------------------------- MODULE Spec2Model ----------------------------
(***************************************************************************)
(* go-pm: the work-item lifecycle engine of pkg/pm.                        *)
(*                                                                         *)
(* A work item is one markdown document (README.md) in a directory of the  *)
(* backlog.  The document is the only state: every service operation reads *)
(* the text, matches or rewrites some of its lines with regular            *)
(* expressions, and writes the text back.                                  *)
(*                                                                         *)
(* Representation of text.  A document is the sequence of its physical     *)
(* lines (the text split at "\n").  A physical line is a sequence of       *)
(* facets: one facet per piece of the line that some regular expression of *)
(* the code can match.  A line written by a template or by hand has one    *)
(* facet; a line has more only after the code has inserted text in front   *)
(* of an existing line without a line break (UpdatePhase, when the         *)
(* document has no phase line).  A facet is a record                       *)
(*     k  the kind: which regular expressions match it                     *)
(*     v  the captured word or text                                        *)
(*     n  the captured number (progress lines)                             *)
(*     x  the check mark of a task line ("[x]")                            *)
(*     t  the item name substituted for {{name}} (title lines)             *)
(* Kinds:                                                                  *)
(*   title     "# Feature: <name>"   (also Bug, Experiment)                *)
(*   status    "## Status: <WORD>"                                         *)
(*   phase     "## Phase: <word>"                                          *)
(*   progress  "## Progress: <n>%"                                         *)
(*   assignee  "## Assigned To: <text>"                                    *)
(*   section   "## <Word> Phase"                                           *)
(*   task      "- [ ] <text>" or "- [x] <text>"                            *)
(*   box       "- [ ]" or "- [x]" with nothing after the bracket           *)
(*   text      any other line; v = "" is the empty line; n = 1 when the    *)
(*             line starts with a word character, x when it starts "##"    *)
(* The documents written by hand in this module keep a run of lines that   *)
(* no expression matches as one text line.                                 *)
(*                                                                         *)
(* Names.  An item name is a sequence of tokens, the pieces of the string  *)
(* between "-": "feature-login" is <<"feature", "login">>.                 *)
(***************************************************************************)
EXTENDS Integers, Sequences, FiniteSets, TLC

VARIABLES
    backlog,    \* the backlog store: directory name -> its files (file
                \* name -> text); an item's document is its README.md
    completedDir, \* the completed store, of the same shape
    config,     \* the service's Config (AutoAssignAgent, EnableGit)
    op,         \* the operation the service ran last, with its arguments
    result,     \* the error it returned: "ok" for nil
    ret,        \* the value it returned, a record (NoValue for none)
    calls,      \* the file-system and git requests it made, in order
    workflow,   \* the position of the client that walks an item through
                \* the whole workflow (TestManagerAdvancePhaseThroughWorkflow)
    inflight    \* the invocations that run at the same time as others (two
                \* go-pm processes on one backlog): for each, the call it is
                \* in, the step it is at and the content it has read

vars == <<backlog, completedDir, config, op, result, ret, calls, workflow, inflight>>

NoValue == [none |-> TRUE]

-----------------------------------------------------------------------------
(* Enumerations of types.go *)

TypeFeature == "feature"
TypeBug == "bug"
TypeExperiment == "experiment"
ValidTypes == {TypeFeature, TypeBug, TypeExperiment}

StatusProposed == "PROPOSED"
StatusInProgressDiscovery == "IN_PROGRESS_DISCOVERY"
StatusInProgressPlanning == "IN_PROGRESS_PLANNING"
StatusInProgressExecution == "IN_PROGRESS_EXECUTION"
StatusInProgressCleanup == "IN_PROGRESS_CLEANUP"
StatusInProgressReview == "IN_PROGRESS_REVIEW"
StatusCompleted == "COMPLETED"
ValidStatuses ==
    {StatusProposed, StatusInProgressDiscovery, StatusInProgressPlanning,
     StatusInProgressExecution, StatusInProgressCleanup, StatusInProgressReview,
     StatusCompleted}

PhaseDiscovery == "discovery"
PhasePlanning == "planning"
PhaseExecution == "execution"
PhaseCleanup == "cleanup"
ValidPhases == {PhaseDiscovery, PhasePlanning, PhaseExecution, PhaseCleanup}

DefaultConfig == [AutoAssignAgent |-> TRUE, EnableGit |-> FALSE]

-----------------------------------------------------------------------------
(* Lines *)

Facet(k, v, n, x, t) == [k |-> k, v |-> v, n |-> n, x |-> x, t |-> t]

TitleLine(label, name) == Facet("title", label, 0, FALSE, name)
StatusLine(s) == Facet("status", s, 0, FALSE, <<>>)
PhaseLine(p) == Facet("phase", p, 0, FALSE, <<>>)
ProgressLine(n) == Facet("progress", "", n, FALSE, <<>>)
AssigneeLine(a) == Facet("assignee", a, 0, FALSE, <<>>)
SectionLine(w) == Facet("section", w, 0, FALSE, <<>>)
TaskLine(x, d) == Facet("task", d, 0, x, <<>>)
BoxLine(x) == Facet("box", "", 0, x, <<>>)
\* A line no expression matches.  n = 1: it starts with a word character
\* (prose); x = TRUE: it starts with "##" (a heading that is no metadata line).
TextLine(s) == Facet("text", s, 0, FALSE, <<>>)
ProseLine(s) == Facet("text", s, 1, FALSE, <<>>)
HeadingLine(s) == Facet("text", s, 0, TRUE, <<>>)
\* A line longer than the scanner's buffer (bufio.MaxScanTokenSize, 64 KiB),
\* of text that no expression matches.
LongLine == Facet("long", "", 0, FALSE, <<>>)

\* Text appended to facets on the same physical line, without a line break:
\* the empty line adds nothing.
Glue(facets, line) ==
    IF line = <<TextLine("")>> THEN facets ELSE facets \o line

\* The value a \w+ capture takes from facet i of a line: the word runs on into
\* prose glued directly behind it.
Glued == "<glued>"
RunsOn(line, i) ==
    i < Len(line) /\ line[i + 1].k = "text" /\ line[i + 1].n = 1
WordAt(line, i) == IF RunsOn(line, i) THEN Glued ELSE line[i].v

\* The value a .+ capture takes from facet i: the rest of the line.
RestAt(line, i) == IF i < Len(line) THEN Glued ELSE line[i].v

\* The first facet of a kind in a line (0: none): FindStringSubmatch returns
\* the leftmost match.
FirstOf(line, k) ==
    IF Len(line) = 1
    THEN (IF line[1].k = k THEN 1 ELSE 0)
    ELSE LET S == {i \in 1..Len(line) : line[i].k = k}
         IN  IF S = {} THEN 0 ELSE CHOOSE i \in S : \A j \in S : i <= j

HasKind(doc, k) == \E i \in 1..Len(doc) : FirstOf(doc[i], k) # 0

\* strings.TrimSpace of a captured text.  Blank is a text of white space only;
\* the other texts of the model neither start nor end with white space.
Blank == " "
TrimSpace(s) == IF s = Blank THEN "" ELSE s

\* strings.ToLower of a section heading's word.
ToLower(w) ==
    CASE w = "Discovery" -> "discovery"
      [] w = "Planning" -> "planning"
      [] w = "Execution" -> "execution"
      [] w = "Cleanup" -> "cleanup"
      [] OTHER -> w

-----------------------------------------------------------------------------
(* WorkItemParser (filesystem.go) *)

Task(description, completed, phase, assignedTo) ==
    [Description |-> description, Completed |-> completed, Phase |-> phase,
     AssignedTo |-> assignedTo]

\* strings.HasPrefix(name, prefix + "-").
HasPrefix(name, prefix) == Len(name) >= 2 /\ name[1] = prefix

\* An inference that takes every directory for a feature.
InferType_AlwaysFeature(name) == TypeFeature

\* "Infer type from directory name".
InferType(name) ==
    IF HasPrefix(name, "feature") THEN TypeFeature
    ELSE IF HasPrefix(name, "bug") THEN TypeBug
    ELSE IF HasPrefix(name, "experiment") THEN TypeExperiment
    ELSE ""

\* A section switch that takes any heading's word for the phase.
SectionPhase_AnyWord(word, currentPhase) == ToLower(word)

\* The phase a section heading switches the parser to: an unrecognized word
\* leaves the current phase.
SectionPhase(word, currentPhase) ==
    IF ToLower(word) \in ValidPhases THEN ToLower(word) ELSE currentPhase

\* One pass of the scanner loop over a line of several facets: the line's
\* matches applied to the item being built (st.item) and to the current phase
\* section (st.cur), in the loop's order.
ParseGlued(line, st) ==
    LET it == st.item
        iS == FirstOf(line, "status")
        iP == FirstOf(line, "phase")
        iG == FirstOf(line, "progress")
        iA == FirstOf(line, "assignee")
        iH == FirstOf(line, "section")
        assigned == IF iA # 0 THEN TrimSpace(RestAt(line, iA)) ELSE it.AssignedTo
        cur == IF iH # 0 THEN SectionPhase(line[iH].v, st.cur) ELSE st.cur
    IN  [item |->
            [it EXCEPT
                !.Title = IF line[1].k = "title" THEN line[1].t ELSE @,
                !.Status = IF iS # 0 THEN WordAt(line, iS) ELSE @,
                !.Phase = IF iP # 0 THEN WordAt(line, iP) ELSE @,
                !.Progress = IF iG # 0 THEN line[iG].n ELSE @,
                !.AssignedTo = assigned,
                !.Tasks = IF line[1].k = "task"
                          THEN Append(@, Task(line[1].v, line[1].x, cur, assigned))
                          ELSE @],
         cur |-> cur]

\* The same pass over a line of one facet: at most one expression matches.
ParseLine(line, st) ==
    IF Len(line) # 1 THEN ParseGlued(line, st)
    ELSE LET f == line[1]
         IN  CASE f.k = "text" -> st
               [] f.k = "task" ->
                    [st EXCEPT !.item.Tasks =
                        Append(@, Task(f.v, f.x, st.cur, st.item.AssignedTo))]
               [] f.k = "section" -> [st EXCEPT !.cur = SectionPhase(f.v, @)]
               [] f.k = "title" -> [st EXCEPT !.item.Title = f.t]
               [] f.k = "status" -> [st EXCEPT !.item.Status = f.v]
               [] f.k = "phase" -> [st EXCEPT !.item.Phase = f.v]
               [] f.k = "progress" -> [st EXCEPT !.item.Progress = f.n]
               [] f.k = "assignee" -> [st EXCEPT !.item.AssignedTo = TrimSpace(f.v)]
               [] OTHER -> st

\* The scanner loop over the lines lo..hi, from the state st: the state
\* after them.  The lines are taken in order, one half after the other, and the
\* state after the first half is bound as a value before the second is scanned.
RECURSIVE ParseLines(_, _, _, _)
ParseLines(doc, lo, hi, st) ==
    IF lo > hi THEN st
    ELSE IF lo = hi THEN ParseLine(doc[lo], st)
    ELSE CHOOSE after \in {ParseLines(doc, (lo + hi) \div 2 + 1, hi, half) :
                              half \in {ParseLines(doc, lo, (lo + hi) \div 2, st)}} : TRUE

\* scanner.Err(): the scanner stops with bufio.ErrTooLong at a line it cannot
\* hold, and ParseWorkItem returns the error.
ScannerErr(doc) == \E i \in 1..Len(doc) : doc[i][1].k = "long"

ParseWorkItem(name, doc) ==
    ParseLines(doc, 1, Len(doc),
        [item |-> [Name |-> name, Type |-> InferType(name), Title |-> <<>>,
                   Status |-> "UNKNOWN", Phase |-> PhaseDiscovery, Progress |-> 0,
                   AssignedTo |-> "", Tasks |-> <<>>],
         cur |-> PhaseDiscovery]).item

-----------------------------------------------------------------------------
(* TaskParser (filesystem.go) *)

\* ^\s*-\s*\[([ x])\] : a check box at the start of the line, described or not.
IsCheckBox(line) == line[1].k \in {"task", "box"}

CountBoxes(doc, i, onlyChecked) ==
    Cardinality({a \in i..Len(doc) :
                    IsCheckBox(doc[a]) /\ (doc[a][1].x \/ ~onlyChecked)})

ParseTaskList(doc) ==
    [total |-> CountBoxes(doc, 1, FALSE), completed |-> CountBoxes(doc, 1, TRUE)]

-----------------------------------------------------------------------------
(* StatusUpdater (filesystem.go) *)

\* ReplaceAllString of "(label)(\w+)" by "${1}word" in one line: the word of
\* every facet of kind k, with what ran on into prose behind it.
ReplaceWordLine(line, k, word) ==
    [i \in 1..Len(line) |->
        IF line[i].k = k THEN [line[i] EXCEPT !.v = word]
        ELSE IF i > 1 /\ line[i - 1].k = k /\ RunsOn(line, i - 1)
             THEN [line[i] EXCEPT !.n = 0]
             ELSE line[i]]

ReplaceWord(doc, k, word) ==
    [i \in 1..Len(doc) |-> ReplaceWordLine(doc[i], k, word)]

\* ReplaceAllString of "(label)(\d+)%" by "${1}n%".
ReplaceNumber(doc, k, n) ==
    [i \in 1..Len(doc) |->
        [j \in 1..Len(doc[i]) |->
            IF doc[i][j].k = k THEN [doc[i][j] EXCEPT !.n = n] ELSE doc[i][j]]]

\* The first line from i on that is not empty (0: none).
NextText(doc, i) ==
    LET T == {m \in i..Len(doc) : doc[m] # <<TextLine("")>>}
    IN  IF T = {} THEN 0 ELSE CHOOSE m \in T : \A h \in T : m <= h

\* ReplaceAllString of "(label\s*)(.+)" by "${1}text", from line i on: the
\* match runs to the end of the line.  \s* is greedy and also takes line
\* breaks, so behind a label followed by white space only the match goes on
\* through the empty lines and (.+) is the next line that has text: that line
\* is replaced, the label's own line is kept as it was.  A line of white space
\* is an empty line to every expression.
RECURSIVE ReplaceRestFrom(_, _, _, _)
ReplaceRestFrom(doc, i, k, text) ==
    LET S == {a \in i..Len(doc) : FirstOf(doc[a], k) # 0}
    IN  IF S = {} THEN SubSeq(doc, i, Len(doc))
        ELSE LET a == CHOOSE b \in S : \A h \in S : b <= h
                 j == FirstOf(doc[a], k)
                 m == NextText(doc, a + 1)
             IN  IF j = Len(doc[a]) /\ TrimSpace(doc[a][j].v) = "" /\ m # 0
                 THEN SubSeq(doc, i, m - 1)
                      \o << IF TrimSpace(text) = "" THEN <<TextLine("")>>
                            ELSE <<ProseLine(text)>> >>
                      \o ReplaceRestFrom(doc, m + 1, k, text)
                 ELSE SubSeq(doc, i, a - 1)
                      \o <<Append(SubSeq(doc[a], 1, j - 1), [doc[a][j] EXCEPT !.v = text])>>
                      \o ReplaceRestFrom(doc, a + 1, k, text)

ReplaceRest(doc, k, text) == ReplaceRestFrom(doc, 1, k, text)

\* ReplaceAllString of "(label\w+)" by "${1}\n\n<new line>" in one line: the
\* line is broken behind every facet of kind k, an empty line follows, and the
\* new text starts the line that holds whatever followed the match.
RECURSIVE SplitLine(_, _, _)
SplitLine(line, k, new) ==
    LET i == FirstOf(line, k)
    IN  IF i = 0 THEN <<line>>
        ELSE LET head == Append(SubSeq(line, 1, i - 1),
                                [line[i] EXCEPT !.v = WordAt(line, i)])
                 rest == [j \in 1..(Len(line) - i) |->
                            IF j = 1 /\ RunsOn(line, i)
                            THEN [line[i + 1] EXCEPT !.n = 0]
                            ELSE line[i + j]]
             IN  <<head, <<TextLine("")>>>> \o SplitLine(<<new>> \o rest, k, new)

RECURSIVE InsertAfter(_, _, _, _)
InsertAfter(doc, i, k, new) ==
    LET S == {a \in i..Len(doc) : FirstOf(doc[a], k) # 0}
    IN  IF S = {} THEN SubSeq(doc, i, Len(doc))
        ELSE LET a == CHOOSE b \in S : \A h \in S : b <= h
             IN  SubSeq(doc, i, a - 1) \o SplitLine(doc[a], k, new)
                 \o InsertAfter(doc, a + 1, k, new)

\* strings.HasPrefix(lines[0], "#").
StartsWithHash(doc) ==
    /\ Len(doc) > 0
    /\ \/ doc[1][1].k \in {"title", "status", "phase", "progress", "assignee", "section"}
       \/ doc[1][1].k = "text" /\ doc[1][1].x

\* "(^# .+\n)": the content starts with a "# " heading and a line break.
StartsWithTitle(doc) == Len(doc) >= 2 /\ doc[1][1].k = "title"

SU_UpdateStatus(doc, newStatus) ==
    IF HasKind(doc, "status") THEN ReplaceWord(doc, "status", newStatus)
    ELSE IF StartsWithHash(doc)
         THEN <<doc[1], <<TextLine("")>>, <<StatusLine(newStatus)>>>> \o Tail(doc)
         ELSE doc

SU_UpdateProgress(doc, progress) ==
    IF HasKind(doc, "progress") THEN ReplaceNumber(doc, "progress", progress)
    ELSE IF HasKind(doc, "status")
         THEN InsertAfter(doc, 1, "status", ProgressLine(progress))
         ELSE doc

SU_UpdateAssignee(doc, assignee) ==
    IF HasKind(doc, "assignee") THEN ReplaceRest(doc, "assignee", assignee)
    ELSE IF HasKind(doc, "phase")
         THEN InsertAfter(doc, 1, "phase", AssigneeLine(assignee))
         ELSE doc

\* A phase update that also resets the status line.
SU_UpdatePhase_ResetsStatus(doc, phase) ==
    ReplaceWord(ReplaceWord(doc, "phase", phase), "status", StatusProposed)

SU_UpdatePhase(doc, phase) ==
    IF HasKind(doc, "phase") THEN ReplaceWord(doc, "phase", phase)
    ELSE IF StartsWithTitle(doc)
         THEN <<doc[1], <<TextLine("")>>, Glue(<<PhaseLine(phase)>>, doc[2])>>
              \o SubSeq(doc, 3, Len(doc))
         ELSE doc

SU_UpdatePhaseAndStatus_StatusOnly(doc, phase, status) ==
    IF HasKind(doc, "status") THEN ReplaceWord(doc, "status", status) ELSE doc

SU_UpdatePhaseAndStatus(doc, phase, status) ==
    LET d == SU_UpdatePhase(doc, phase)
    IN  IF HasKind(d, "status") THEN ReplaceWord(d, "status", status)
        ELSE IF HasKind(d, "phase")
             THEN InsertAfter(d, 1, "phase", StatusLine(status))
             ELSE d

\* The position of the line holding check box number taskId (0: none), the
\* boxes counted from 0 in document order.
BoxLineAt(doc, i, taskId) ==
    LET S == {a \in i..Len(doc) : IsCheckBox(doc[a])}
    IN  IF taskId < 0 \/ taskId >= Cardinality(S) THEN 0
        ELSE CHOOSE a \in S : Cardinality({b \in S : b < a}) = taskId

SU_CompleteTask(doc, taskId) ==
    LET i == IF taskId < 0 THEN 0 ELSE BoxLineAt(doc, 1, taskId)
    IN  IF i = 0 THEN doc
        ELSE [doc EXCEPT ![i] = [doc[i] EXCEPT ![1] = [doc[i][1] EXCEPT !.x = TRUE]]]

-----------------------------------------------------------------------------
(* ProgressTracker (instructions.go) *)

TasksOfPhase(tasks, phase) == SelectSeq(tasks, LAMBDA t : t.Phase = phase)

CompletedCount(tasks) == Len(SelectSeq(tasks, LAMBDA t : t.Completed))

\* A percentage rounded to the nearest integer.
Percent_Rounded(completed, total) ==
    IF total > 0 THEN (completed * 100 + total \div 2) \div total ELSE 0

\* (completed * 100) / total in Go's integer division, 0 for no task.
Percent(completed, total) == IF total > 0 THEN (completed * 100) \div total ELSE 0

CalculatePhaseProgress(workItem, phase) ==
    LET phaseTasks == TasksOfPhase(workItem.Tasks, phase)
    IN  [Phase |-> phase,
         TotalTasks |-> Len(phaseTasks),
         CompletedTasks |-> CompletedCount(phaseTasks),
         ProgressPercent |-> Percent(CompletedCount(phaseTasks), Len(phaseTasks))]

PhaseOrder == <<PhaseDiscovery, PhasePlanning, PhaseExecution, PhaseCleanup>>

CalculateWorkItemMetrics(workItem) ==
    [Name |-> workItem.Name,
     TotalTasks |-> Len(workItem.Tasks),
     CompletedTasks |-> CompletedCount(workItem.Tasks),
     OverallProgress |-> Percent(CompletedCount(workItem.Tasks), Len(workItem.Tasks)),
     PhaseProgress |-> [i \in 1..Len(PhaseOrder) |->
                           CalculatePhaseProgress(workItem, PhaseOrder[i])]]

-----------------------------------------------------------------------------
(* WorkItemService (workitem.go): helpers *)

\* The tasks of the item's current phase, in document order.
PhaseTasks(item) == TasksOfPhase(item.Tasks, item.Phase)

\* A validation that lets every item through.
validatePhaseTasksCompleted_Skipped(item) == TRUE

\* A gate that is applied to the last advance only.
validatePhaseTasksCompleted_AtReviewOnly(item) ==
    \/ item.Status # StatusInProgressReview
    \/ \A i \in 1..Len(item.Tasks) :
          item.Tasks[i].Phase = item.Phase => item.Tasks[i].Completed

\* A gate that looks at the tasks of the phase the status stands for.
validatePhaseTasksCompleted_ByStatus(item) ==
    LET own == CASE item.Status = StatusInProgressDiscovery -> PhaseDiscovery
                 [] item.Status = StatusInProgressPlanning -> PhasePlanning
                 [] item.Status = StatusInProgressExecution -> PhaseExecution
                 [] item.Status \in {StatusInProgressCleanup, StatusInProgressReview}
                        -> PhaseCleanup
                 [] OTHER -> item.Phase
    IN  \/ item.Status = StatusProposed
        \/ \A i \in 1..Len(item.Tasks) :
              item.Tasks[i].Phase = own => item.Tasks[i].Completed

\* nil (TRUE) or a PhaseError (FALSE).
validatePhaseTasksCompleted(item) ==
    \/ item.Status = StatusProposed
    \/ \A i \in 1..Len(PhaseTasks(item)) : PhaseTasks(item)[i].Completed

\* A step function that leaves PROPOSED for the planning phase.
getNextPhase_SkipsDiscovery(currentPhase, currentStatus) ==
    CASE currentStatus = StatusProposed ->
            [phase |-> PhasePlanning, status |-> StatusInProgressDiscovery, err |-> FALSE]
      [] currentStatus = StatusInProgressDiscovery ->
            [phase |-> PhasePlanning, status |-> StatusInProgressPlanning, err |-> FALSE]
      [] currentStatus = StatusInProgressPlanning ->
            [phase |-> PhaseExecution, status |-> StatusInProgressExecution, err |-> FALSE]
      [] currentStatus = StatusInProgressExecution ->
            [phase |-> PhaseCleanup, status |-> StatusInProgressCleanup, err |-> FALSE]
      [] currentStatus = StatusInProgressCleanup ->
            [phase |-> PhaseCleanup, status |-> StatusInProgressReview, err |-> FALSE]
      [] currentStatus = StatusInProgressReview ->
            [phase |-> PhaseCleanup, status |-> StatusCompleted, err |-> FALSE]
      [] OTHER -> [phase |-> "", status |-> "", err |-> TRUE]

\* A step function that keeps a finished item in COMPLETED without an error.
getNextPhase_CompletedStays(currentPhase, currentStatus) ==
    CASE currentStatus = StatusProposed ->
            [phase |-> PhaseDiscovery, status |-> StatusInProgressDiscovery, err |-> FALSE]
      [] currentStatus = StatusInProgressDiscovery ->
            [phase |-> PhasePlanning, status |-> StatusInProgressPlanning, err |-> FALSE]
      [] currentStatus = StatusInProgressPlanning ->
            [phase |-> PhaseExecution, status |-> StatusInProgressExecution, err |-> FALSE]
      [] currentStatus = StatusInProgressExecution ->
            [phase |-> PhaseCleanup, status |-> StatusInProgressCleanup, err |-> FALSE]
      [] currentStatus = StatusInProgressCleanup ->
            [phase |-> PhaseCleanup, status |-> StatusInProgressReview, err |-> FALSE]
      [] currentStatus = StatusInProgressReview ->
            [phase |-> PhaseCleanup, status |-> StatusCompleted, err |-> FALSE]
      [] OTHER -> [phase |-> PhaseCleanup, status |-> StatusCompleted, err |-> FALSE]

\* A step function without the review status: cleanup ends in COMPLETED.
getNextPhase_NoReview(currentPhase, currentStatus) ==
    CASE currentStatus = StatusProposed ->
            [phase |-> PhaseDiscovery, status |-> StatusInProgressDiscovery, err |-> FALSE]
      [] currentStatus = StatusInProgressDiscovery ->
            [phase |-> PhasePlanning, status |-> StatusInProgressPlanning, err |-> FALSE]
      [] currentStatus = StatusInProgressPlanning ->
            [phase |-> PhaseExecution, status |-> StatusInProgressExecution, err |-> FALSE]
      [] currentStatus = StatusInProgressExecution ->
            [phase |-> PhaseCleanup, status |-> StatusInProgressCleanup, err |-> FALSE]
      [] currentStatus = StatusInProgressCleanup ->
            [phase |-> PhaseCleanup, status |-> StatusCompleted, err |-> FALSE]
      [] currentStatus = StatusInProgressReview ->
            [phase |-> PhaseCleanup, status |-> StatusCompleted, err |-> FALSE]
      [] OTHER -> [phase |-> "", status |-> "", err |-> TRUE]

\* A step function that reads the phase: the phase that follows it in the
\* workflow, with that phase's status.
getNextPhase_ByPhase(currentPhase, currentStatus) ==
    CASE currentStatus = StatusProposed /\ currentPhase = PhaseDiscovery ->
            [phase |-> PhaseDiscovery, status |-> StatusInProgressDiscovery, err |-> FALSE]
      [] currentStatus # StatusProposed /\ currentPhase = PhaseDiscovery ->
            [phase |-> PhasePlanning, status |-> StatusInProgressPlanning, err |-> FALSE]
      [] currentPhase = PhasePlanning ->
            [phase |-> PhaseExecution, status |-> StatusInProgressExecution, err |-> FALSE]
      [] currentPhase = PhaseExecution ->
            [phase |-> PhaseCleanup, status |-> StatusInProgressCleanup, err |-> FALSE]
      [] currentPhase = PhaseCleanup ->
            [phase |-> PhaseCleanup, status |-> StatusInProgressReview, err |-> FALSE]
      [] OTHER -> [phase |-> "", status |-> "", err |-> TRUE]

getNextPhase(currentPhase, currentStatus) ==
    CASE currentStatus = StatusProposed ->
            [phase |-> PhaseDiscovery, status |-> StatusInProgressDiscovery, err |-> FALSE]
      [] currentStatus = StatusInProgressDiscovery ->
            [phase |-> PhasePlanning, status |-> StatusInProgressPlanning, err |-> FALSE]
      [] currentStatus = StatusInProgressPlanning ->
            [phase |-> PhaseExecution, status |-> StatusInProgressExecution, err |-> FALSE]
      [] currentStatus = StatusInProgressExecution ->
            [phase |-> PhaseCleanup, status |-> StatusInProgressCleanup, err |-> FALSE]
      [] currentStatus = StatusInProgressCleanup ->
            [phase |-> PhaseCleanup, status |-> StatusInProgressReview, err |-> FALSE]
      [] currentStatus = StatusInProgressReview ->
            [phase |-> PhaseCleanup, status |-> StatusCompleted, err |-> FALSE]
      [] OTHER -> [phase |-> "", status |-> "", err |-> TRUE]

\* Validations that let every value through.
validateStatus_Any(status) == TRUE
validatePhase_Any(phase) == TRUE

validateStatus(status) == status \in ValidStatuses

validatePhase(phase) == phase \in ValidPhases

\* "%s-%s"
getWorkItemDirName(itemType, name) == <<itemType>> \o name

\* The position in item.Tasks, counted from 0, of the task that is number
\* taskId among the tasks of the current phase; -1 when there is none.
RECURSIVE FindGlobalTaskId(_, _, _, _)
FindGlobalTaskId(tasks, phase, i, taskId) ==
    IF i > Len(tasks) THEN -1
    ELSE IF tasks[i].Phase = phase
         THEN (IF taskId = 0 THEN i - 1
               ELSE FindGlobalTaskId(tasks, phase, i + 1, taskId - 1))
         ELSE FindGlobalTaskId(tasks, phase, i + 1, taskId)

GlobalTaskId(item, taskId) == FindGlobalTaskId(item.Tasks, item.Phase, 1, taskId)

updateProgressFromTasks(doc) ==
    LET c == ParseTaskList(doc)
    IN  SU_UpdateProgress(doc, Percent(c.completed, c.total))

-----------------------------------------------------------------------------
(* The embedded templates (templates/workitem-*.md), line by line, {{name}}
   replaced. *)

embeddedTemplateWorkItemFeature(name) ==
    << <<TitleLine("Feature", name)>>,
       <<TextLine("")>>,
       <<StatusLine("PROPOSED")>>,
       <<PhaseLine("discovery")>>,
       <<ProgressLine(0)>>,
       <<AssigneeLine("agent")>>,
       <<TextLine("")>>,
       <<HeadingLine("## Overview")>>,
       <<ProseLine("Brief description of the feature and its purpose.")>>,
       <<TextLine("")>>,
       <<HeadingLine("## Requirements")>>,
       <<TextLine("- Requirement 1")>>,
       <<TextLine("- Requirement 2")>>,
       <<TextLine("- Requirement 3")>>,
       <<TextLine("")>>,
       <<TextLine("---")>>,
       <<TextLine("")>>,
       <<SectionLine("Discovery")>>,
       <<TextLine("")>>,
       <<HeadingLine("### Goals")>>,
       <<TextLine("- Understand the problem space")>>,
       <<TextLine("- Gather requirements and constraints")>>,
       <<TextLine("- Identify stakeholders and dependencies")>>,
       <<TextLine("")>>,
       <<HeadingLine("### Tasks")>>,
       <<TaskLine(FALSE, "Analyze current implementation")>>,
       <<TaskLine(FALSE, "Interview stakeholders")>>,
       <<TaskLine(FALSE, "Document requirements")>>,
       <<TaskLine(FALSE, "Identify technical constraints")>>,
       <<TextLine("")>>,
       <<HeadingLine("### Notes")>>,
       <<ProseLine("Add any findings, questions, or concerns from the discovery phase.")>>,
       <<TextLine("")>>,
       <<TextLine("---")>>,
       <<TextLine("")>>,
       <<SectionLine("Planning")>>,
       <<TextLine("")>>,
       <<HeadingLine("### Technical Design")>>,
       <<ProseLine("Detailed technical specifications and design decisions.")>>,
       <<TextLine("")>>,
       <<HeadingLine("### API Design")>>,
       <<ProseLine("API endpoints, data structures, and interfaces.")>>,
       <<TextLine("")>>,
       <<HeadingLine("### Implementation Plan")>>,
       <<ProseLine("Step-by-step implementation approach.")>>,
       <<TextLine("")>>,
       <<HeadingLine("### Acceptance Criteria")>>,
       <<TaskLine(FALSE, "Criteria 1")>>,
       <<TaskLine(FALSE, "Criteria 2")>>,
       <<TaskLine(FALSE, "Criteria 3")>>,
       <<TextLine("")>>,
       <<HeadingLine("### Tasks")>>,
       <<TaskLine(FALSE, "Create technical design document")>>,
       <<TaskLine(FALSE, "Define API contracts")>>,
       <<TaskLine(FALSE, "Break down implementation tasks")>>,
       <<TaskLine(FALSE, "Identify testing requirements")>>,
       <<TextLine("")>>,
       <<HeadingLine("### Notes")>>,
       <<ProseLine("Design decisions, trade-offs, and rationale.")>>,
       <<TextLine("")>>,
       <<TextLine("---")>>,
       <<TextLine("")>>,
       <<SectionLine("Execution")>>,
       <<TextLine("")>>,
       <<HeadingLine("### Implementation Details")>>,
       <<ProseLine("Code changes, files modified, and key decisions.")>>,
       <<TextLine("")>>,
       <<HeadingLine("### Testing")>>,
       <<ProseLine("Test cases, coverage, and validation approach.")>>,
       <<TextLine("")>>,
       <<HeadingLine("### Documentation Updates")>>,
       <<ProseLine("Updated documentation and user guides.")>>,
       <<TextLine("")>>,
       <<HeadingLine("### Tasks")>>,
       <<TaskLine(FALSE, "Implement core functionality")>>,
       <<TaskLine(FALSE, "Write unit tests")>>,
       <<TaskLine(FALSE, "Update documentation")>>,
       <<TaskLine(FALSE, "Code review and validation")>>,
       <<TextLine("")>>,
       <<HeadingLine("### Notes")>>,
       <<ProseLine("Implementation challenges, solutions, and learnings.")>>,
       <<TextLine("")>>,
       <<TextLine("---")>>,
       <<TextLine("")>>,
       <<SectionLine("Cleanup")>>,
       <<TextLine("")>>,
       <<HeadingLine("### Final Testing")>>,
       <<ProseLine("Integration testing, end-to-end validation.")>>,
       <<TextLine("")>>,
       <<HeadingLine("### Documentation Completion")>>,
       <<ProseLine("Complete all documentation updates.")>>,
       <<TextLine("")>>,
       <<HeadingLine("### Postmortem")>>,
       <<ProseLine("What went well, what could be improved.")>>,
       <<TextLine("")>>,
       <<HeadingLine("### Tasks")>>,
       <<TaskLine(FALSE, "Final testing and validation")>>,
       <<TaskLine(FALSE, "Documentation completion")>>,
       <<TaskLine(FALSE, "Knowledge sharing")>>,
       <<TaskLine(FALSE, "Archive work item")>>,
       <<TextLine("")>>,
       <<HeadingLine("### Notes")>>,
       <<ProseLine("Final observations and recommendations.")>> >>

embeddedTemplateWorkItemBug(name) ==
    << <<TitleLine("Bug", name)>>,
       <<TextLine("")>>,
       <<StatusLine("PROPOSED")>>,
       <<PhaseLine("discovery")>>,
       <<ProgressLine(0)>>,
       <<AssigneeLine("agent")>>,
       <<TextLine("")>>,
       <<HeadingLine("## Problem Description")>>,
       <<ProseLine("Clear description of the bug, including steps to reproduce.")>>,
       <<TextLine("")>>,
       <<HeadingLine("## Expected Behavior")>>,
       <<ProseLine("What should happen instead.")>>,
       <<TextLine("")>>,
       <<HeadingLine("## Actual Behavior")>>,
       <<ProseLine("What actually happens.")>>,
       <<TextLine("")>>,
       <<HeadingLine("## Environment")>>,
       <<TextLine("- OS/Browser:")>>,
       <<TextLine("- Version:")>>,
       <<TextLine("- Steps to reproduce:")>>,
       <<TextLine("  1. Step 1")>>,
       <<TextLine("  2. Step 2")>>,
       <<TextLine("  3. Step 3")>>,
       <<TextLine("")>>,
       <<TextLine("---")>>,
       <<TextLine("")>>,
       <<SectionLine("Discovery")>>,
       <<TextLine("")>>,
       <<HeadingLine("### Goals")>>,
       <<TextLine("- Reproduce the issue")>>,
       <<TextLine("- Understand the root cause")>>,
       <<TextLine("- Identify impact and severity")>>,
       <<TextLine("")>>,
       <<HeadingLine("### Tasks")>>,
       <<TaskLine(FALSE, "Reproduce the bug")>>,
       <<TaskLine(FALSE, "Analyze error logs/stack traces")>>,
       <<TaskLine(FALSE, "Identify affected code paths")>>,
       <<TaskLine(FALSE, "Determine impact and priority")>>,
       <<TextLine("")>>,
       <<HeadingLine("### Notes")>>,
       <<ProseLine("Reproduction steps, error details, and initial analysis.")>>,
       <<TextLine("")>>,
       <<TextLine("---")>>,
       <<TextLine("")>>,
       <<SectionLine("Planning")>>,
       <<TextLine("")>>,
       <<HeadingLine("### Root Cause Analysis")>>,
       <<ProseLine("Detailed analysis of why the bug occurs.")>>,
       <<TextLine("")>>,
       <<HeadingLine("### Fix Strategy")>>,
       <<ProseLine("Approach for fixing the bug.")>>,
       <<TextLine("")>>,
       <<HeadingLine("### Testing Plan")>>,
       <<ProseLine("How to verify the fix and prevent regression.")>>,
       <<TextLine("")>>,
       <<HeadingLine("### Acceptance Criteria")>>,
       <<TaskLine(FALSE, "Bug is fixed")>>,
       <<TaskLine(FALSE, "No regressions introduced")>>,
       <<TaskLine(FALSE, "Test coverage added")>>,
       <<TextLine("")>>,
       <<HeadingLine("### Tasks")>>,
       <<TaskLine(FALSE, "Analyze root cause")>>,
       <<TaskLine(FALSE, "Design fix approach")>>,
       <<TaskLine(FALSE, "Plan testing strategy")>>,
       <<TaskLine(FALSE, "Identify affected areas")>>,
       <<TextLine("")>>,
       <<HeadingLine("### Notes")>>,
       <<ProseLine("Technical analysis and fix planning.")>>,
       <<TextLine("")>>,
       <<TextLine("---")>>,
       <<TextLine("")>>,
       <<SectionLine("Execution")>>,
       <<TextLine("")>>,
       <<HeadingLine("### Code Changes")>>,
       <<ProseLine("Files modified and changes made.")>>,
       <<TextLine("")>>,
       <<HeadingLine("### Testing")>>,
       <<ProseLine("Test cases added and validation performed.")>>,
       <<TextLine("")>>,
       <<HeadingLine("### Verification")>>,
       <<ProseLine("Steps taken to verify the fix.")>>,
       <<TextLine("")>>,
       <<HeadingLine("### Tasks")>>,
       <<TaskLine(FALSE, "Implement the fix")>>,
       <<TaskLine(FALSE, "Write regression tests")>>,
       <<TaskLine(FALSE, "Test the fix thoroughly")>>,
       <<TaskLine(FALSE, "Code review")>>,
       <<TextLine("")>>,
       <<HeadingLine("### Notes")>>,
       <<ProseLine("Implementation details and testing results.")>>,
       <<TextLine("")>>,
       <<TextLine("---")>>,
       <<TextLine("")>>,
       <<SectionLine("Cleanup")>>,
       <<TextLine("")>>,
       <<HeadingLine("### Final Validation")>>,
       <<ProseLine("End-to-end testing and validation.")>>,
       <<TextLine("")>>,
       <<HeadingLine("### Documentation Updates")>>,
       <<ProseLine("Update any relevant documentation.")>>,
       <<TextLine("")>>,
       <<HeadingLine("### Postmortem")>>,
       <<ProseLine("What was learned from this bug fix.")>>,
       <<TextLine("")>>,
       <<HeadingLine("### Tasks")>>,
       <<TaskLine(FALSE, "Final validation testing")>>,
       <<TaskLine(FALSE, "Update documentation")>>,
       <<TaskLine(FALSE, "Knowledge sharing")>>,
       <<TaskLine(FALSE, "Archive work item")>>,
       <<TextLine("")>>,
       <<HeadingLine("### Notes")>>,
       <<ProseLine("Lessons learned and prevention measures.")>> >>

embeddedTemplateWorkItemExperiment(name) ==
    << <<TitleLine("Experiment", name)>>,
       <<TextLine("")>>,
       <<StatusLine("PROPOSED")>>,
       <<PhaseLine("discovery")>>,
       <<ProgressLine(0)>>,
       <<AssigneeLine("agent")>>,
       <<TextLine("")>>,
       <<HeadingLine("## Hypothesis")>>,
       <<ProseLine("What we believe will happen and why.")>>,
       <<TextLine("")>>,
       <<HeadingLine("## Goals")>>,
       <<ProseLine("What we hope to learn or achieve.")>>,
       <<TextLine("")>>,
       <<HeadingLine("## Success Criteria")>>,
       <<ProseLine("How we'll measure success.")>>,
       <<TextLine("")>>,
       <<HeadingLine("## Risk Assessment")>>,
       <<ProseLine("Potential risks and mitigation strategies.")>>,
       <<TextLine("")>>,
       <<TextLine("---")>>,
       <<TextLine("")>>,
       <<SectionLine("Discovery")>>,
       <<TextLine("")>>,
       <<HeadingLine("### Goals")>>,
       <<TextLine("- Define the experiment clearly")>>,
       <<TextLine("- Understand constraints and resources needed")>>,
       <<TextLine("- Identify success metrics")>>,
       <<TextLine("")>>,
       <<HeadingLine("### Tasks")>>,
       <<TaskLine(FALSE, "Define hypothesis clearly")>>,
       <<TaskLine(FALSE, "Identify variables and controls")>>,
       <<TaskLine(FALSE, "Plan data collection")>>,
       <<TaskLine(FALSE, "Assess resource requirements")>>,
       <<TextLine("")>>,
       <<HeadingLine("### Notes")>>,
       <<ProseLine("Initial planning and preparation.")>>,
       <<TextLine("")>>,
       <<TextLine("---")>>,
       <<TextLine("")>>,
       <<SectionLine("Planning")>>,
       <<TextLine("")>>,
       <<HeadingLine("### Experimental Design")>>,
       <<ProseLine("Detailed experimental methodology.")>>,
       <<TextLine("")>>,
       <<HeadingLine("### Implementation Plan")>>,
       <<ProseLine("How the experiment will be conducted.")>>,
       <<TextLine("")>>,
       <<HeadingLine("### Data Collection")>>,
       <<ProseLine("What data will be collected and how.")>>,
       <<TextLine("")>>,
       <<HeadingLine("### Analysis Plan")>>,
       <<ProseLine("How results will be analyzed.")>>,
       <<TextLine("")>>,
       <<HeadingLine("### Acceptance Criteria")>>,
       <<TaskLine(FALSE, "Experiment designed properly")>>,
       <<TaskLine(FALSE, "Data collection plan in place")>>,
       <<TaskLine(FALSE, "Analysis methodology defined")>>,
       <<TextLine("")>>,
       <<HeadingLine("### Tasks")>>,
       <<TaskLine(FALSE, "Design experimental methodology")>>,
       <<TaskLine(FALSE, "Set up data collection")>>,
       <<TaskLine(FALSE, "Prepare analysis tools")>>,
       <<TaskLine(FALSE, "Plan execution steps")>>,
       <<TextLine("")>>,
       <<HeadingLine("### Notes")>>,
       <<ProseLine("Detailed experimental design and planning.")>>,
       <<TextLine("")>>,
       <<TextLine("---")>>,
       <<TextLine("")>>,
       <<SectionLine("Execution")>>,
       <<TextLine("")>>,
       <<HeadingLine("### Implementation")>>,
       <<ProseLine("How the experiment was conducted.")>>,
       <<TextLine("")>>,
       <<HeadingLine("### Data Collection")>>,
       <<ProseLine("Data gathered during execution.")>>,
       <<TextLine("")>>,
       <<HeadingLine("### Observations")>>,
       <<ProseLine("Key observations and unexpected findings.")>>,
       <<TextLine("")>>,
       <<HeadingLine("### Tasks")>>,
       <<TaskLine(FALSE, "Execute the experiment")>>,
       <<TaskLine(FALSE, "Collect data systematically")>>,
       <<TaskLine(FALSE, "Monitor for issues")>>,
       <<TaskLine(FALSE, "Document observations")>>,
       <<TextLine("")>>,
       <<HeadingLine("### Notes")>>,
       <<ProseLine("Execution details and real-time observations.")>>,
       <<TextLine("")>>,
       <<TextLine("---")>>,
       <<TextLine("")>>,
       <<SectionLine("Cleanup")>>,
       <<TextLine("")>>,
       <<HeadingLine("### Data Analysis")>>,
       <<ProseLine("Analysis of results and findings.")>>,
       <<TextLine("")>>,
       <<HeadingLine("### Conclusions")>>,
       <<ProseLine("What was learned and implications.")>>,
       <<TextLine("")>>,
       <<HeadingLine("### Recommendations")>>,
       <<ProseLine("Next steps and recommendations.")>>,
       <<TextLine("")>>,
       <<HeadingLine("### Tasks")>>,
       <<TaskLine(FALSE, "Analyze all data collected")>>,
       <<TaskLine(FALSE, "Draw conclusions")>>,
       <<TaskLine(FALSE, "Document findings")>>,
       <<TaskLine(FALSE, "Plan follow-up actions")>>,
       <<TextLine("")>>,
       <<HeadingLine("### Notes")>>,
       <<ProseLine("Final analysis, conclusions, and recommendations.")>> >>

\* nil with the processed text, or "unsupported item type".
ProcessTemplate(name, itemType) ==
    CASE itemType = TypeFeature ->
            [err |-> FALSE, doc |-> embeddedTemplateWorkItemFeature(name)]
      [] itemType = TypeBug ->
            [err |-> FALSE, doc |-> embeddedTemplateWorkItemBug(name)]
      [] itemType = TypeExperiment ->
            [err |-> FALSE, doc |-> embeddedTemplateWorkItemExperiment(name)]
      [] OTHER -> [err |-> TRUE, doc |-> <<>>]

-----------------------------------------------------------------------------
(* WorkItemService (workitem.go): the operations *)

Call(c, arg) == [call |-> c, arg |-> arg]

\* filepath.Join(config.BacklogDir, name) and (..., name, "README.md")
BacklogPath(name) == <<"backlog">> \o name
ReadmePath(name) == BacklogPath(name) \o <<"README.md">>

\* The file system's answers: the item's directory holds a README.md, and its
\* text.
README == "README.md"
ReadmeExists(name) == name \in DOMAIN backlog /\ README \in DOMAIN backlog[name]
Content(name) == backlog[name][README]

FileExists(name) == Call("FileExists", ReadmePath(name))
ReadFile(name) == Call("ReadFile", ReadmePath(name))
WriteFile(name) == Call("WriteFile", ReadmePath(name))

\* One rewrite of the StatusUpdater: the document read, then written.
Rewrite(name) == <<ReadFile(name), WriteFile(name)>>

\* t: the type of a list filter.
Op(name, item, s, n) == [name |-> name, item |-> item, s |-> s, n |-> n, t |-> ""]

\* The invocations of the model that overlap in time, and one that has not
\* started.
Callers == {1, 2}
Resting == [pc |-> "idle", name |-> "", s |-> "", n |-> 0, g |-> 0, p |-> 0,
            stage |-> 0, buf |-> <<>>, res |-> ""]
Nobody == [c \in Callers |-> Resting]

\* A call that runs from its first statement to its return with no other
\* invocation in between.
Returns(o, err, value, made) ==
    /\ op' = o
    /\ result' = err
    /\ ret' = value
    /\ calls' = made
    /\ UNCHANGED inflight

NotFound(o, name) ==
    /\ Returns(o, "NotFound", NoValue, <<FileExists(name)>>)
    /\ UNCHANGED <<backlog, completedDir, config>>

\* "failed to parse work item"
ParseFailed(o, name) ==
    /\ Returns(o, "ParseError", NoValue, <<FileExists(name), ReadFile(name)>>)
    /\ UNCHANGED <<backlog, completedDir, config>>

\* fmt.Printf: a line the service prints.
Printf(text) == Call("Printf", <<text>>)

\* The answers of the git client to a request for a branch: BranchExists says
\* it exists; or it does not and CreateBranch makes it; or CreateBranch fails.
BranchOk == {"exists", "created"}
BranchAnswers == BranchOk \cup {"failed"}

\* No file at all.
EmptyDir == [f \in {} |-> <<>>]

\* GitIntegration.CreateWorkItemBranch / CreateWorkItemBranchForPhase: the
\* requests made to the git client for a branch; a failing CreateBranch is
\* printed and dropped.
BranchRequests(branch, answer) ==
    IF answer = "exists" THEN <<Call("BranchExists", branch)>>
    ELSE IF answer = "created"
    THEN <<Call("BranchExists", branch), Call("CreateBranch", branch)>>
    ELSE <<Call("BranchExists", branch), Call("CreateBranch", branch),
           Printf("Note: Could not create git branch")>>

\* "%s/%s" and "%s/%s/%s"
GenerateBranchName(itemType, name) == <<itemType, "/">> \o name
PhaseBranchName(itemType, name, phase) == <<itemType, "/">> \o name \o <<"/", phase>>

\* A Create that does not look for the directory and writes the template over
\* whatever is there.
CreateWorkItem_Overwrites(itemType, name, answer, templateWritten) ==
    LET o == Op("CreateWorkItem", name, itemType, 0)
        dir == getWorkItemDirName(itemType, name)
        tpl == ProcessTemplate(name, itemType)
    IN  /\ UNCHANGED <<completedDir, config>>
        /\ IF name = <<>> \/ itemType = "" \/ itemType \notin ValidTypes
           THEN /\ Returns(o, "ValidationError", NoValue, <<>>)
                /\ UNCHANGED backlog
           ELSE /\ backlog' = (dir :> (README :> tpl.doc)) @@ backlog
                /\ Returns(o, "ok", ParseWorkItem(dir, tpl.doc),
                       <<Call("CreateDirectory", BacklogPath(dir)), WriteFile(dir)>>)

\* answer: the git client's answer to the request for the branch;
\* templateWritten: the file system's answer to the write of README.md.
CreateWorkItem(itemType, name, answer, templateWritten) ==
    LET o == Op("CreateWorkItem", name, itemType, 0)
        dir == getWorkItemDirName(itemType, name)
        tpl == ProcessTemplate(name, itemType)
    IN  /\ UNCHANGED <<completedDir, config>>
        /\ IF name = <<>> \/ itemType = "" \/ itemType \notin ValidTypes
           THEN /\ Returns(o, "ValidationError", NoValue, <<>>)
                /\ UNCHANGED backlog
           ELSE IF dir \in DOMAIN backlog
           THEN /\ Returns(o, "ValidationError", NoValue,
                           <<Call("DirectoryExists", BacklogPath(dir))>>)
                /\ UNCHANGED backlog
           ELSE IF ~templateWritten
           THEN /\ backlog' = (dir :> EmptyDir) @@ backlog
                /\ Returns(o, "TemplateError", NoValue,
                           <<Call("DirectoryExists", BacklogPath(dir)),
                             Call("CreateDirectory", BacklogPath(dir)),
                             WriteFile(dir)>>)
           ELSE /\ backlog' = (dir :> (README :> tpl.doc)) @@ backlog
                /\ Returns(o, "ok", ParseWorkItem(dir, tpl.doc),
                       <<Call("DirectoryExists", BacklogPath(dir)),
                         Call("CreateDirectory", BacklogPath(dir)),
                         WriteFile(dir)>>
                       \o (IF config.EnableGit
                           THEN BranchRequests(GenerateBranchName(itemType, name),
                                               answer)
                           ELSE <<>>)
                       \o <<ReadFile(dir)>>)

GetWorkItem(name) ==
    LET o == Op("GetWorkItem", name, "", 0)
    IN  IF ~ReadmeExists(name) THEN NotFound(o, name)
        ELSE IF ScannerErr(Content(name)) THEN ParseFailed(o, name)
        ELSE /\ Returns(o, "ok", ParseWorkItem(name, Content(name)),
                        <<FileExists(name), ReadFile(name)>>)
             /\ UNCHANGED <<backlog, completedDir, config>>

UpdateStatus(name, status) ==
    LET o == Op("UpdateStatus", name, status, 0)
    IN  IF ~validateStatus(status)
        THEN /\ Returns(o, "ValidationError", NoValue, <<>>)
             /\ UNCHANGED <<backlog, completedDir, config>>
        ELSE IF ~ReadmeExists(name) THEN NotFound(o, name)
        ELSE /\ backlog' = [backlog EXCEPT ![name][README] = SU_UpdateStatus(@, status)]
             /\ Returns(o, "ok", NoValue, <<FileExists(name)>> \o Rewrite(name))
             /\ UNCHANGED <<completedDir, config>>

SetPhase(name, phase) ==
    LET o == Op("SetPhase", name, phase, 0)
    IN  IF ~validatePhase(phase)
        THEN /\ Returns(o, "ValidationError", NoValue, <<>>)
             /\ UNCHANGED <<backlog, completedDir, config>>
        ELSE IF ~ReadmeExists(name) THEN NotFound(o, name)
        ELSE /\ backlog' = [backlog EXCEPT ![name][README] = SU_UpdatePhase(@, phase)]
             /\ Returns(o, "ok", NoValue, <<FileExists(name)>> \o Rewrite(name))
             /\ UNCHANGED <<completedDir, config>>

GetPhaseTasks(name) ==
    LET o == Op("GetPhaseTasks", name, "", 0)
    IN  IF ~ReadmeExists(name) THEN NotFound(o, name)
        ELSE IF ScannerErr(Content(name)) THEN ParseFailed(o, name)
        ELSE /\ Returns(o, "ok", [Tasks |-> PhaseTasks(ParseWorkItem(name, Content(name)))],
                        <<FileExists(name), ReadFile(name)>>)
             /\ UNCHANGED <<backlog, completedDir, config>>

\* Metrics that write the progress they computed into the document.
GetProgressMetrics_Persists(name) ==
    LET o == Op("GetProgressMetrics", name, "", 0)
    IN  IF ~ReadmeExists(name) THEN NotFound(o, name)
        ELSE IF ScannerErr(Content(name)) THEN ParseFailed(o, name)
        ELSE \E m \in {CalculateWorkItemMetrics(ParseWorkItem(name, Content(name)))} :
                /\ backlog' = [backlog EXCEPT
                                  ![name][README] = SU_UpdateProgress(@, m.OverallProgress)]
                /\ Returns(o, "ok", m, <<FileExists(name)>> \o Rewrite(name))
                /\ UNCHANGED <<completedDir, config>>

GetProgressMetrics(name) ==
    LET o == Op("GetProgressMetrics", name, "", 0)
    IN  IF ~ReadmeExists(name) THEN NotFound(o, name)
        ELSE IF ScannerErr(Content(name)) THEN ParseFailed(o, name)
        ELSE /\ Returns(o, "ok",
                        CalculateWorkItemMetrics(ParseWorkItem(name, Content(name))),
                        <<FileExists(name), ReadFile(name)>>)
             /\ UNCHANGED <<backlog, completedDir, config>>

\* A CompleteTask that takes the index as one into the whole document.
CompleteTask_WholeDocument(name, taskId) ==
    LET o == Op("CompleteTask", name, "", taskId)
        parsed == <<FileExists(name), ReadFile(name)>>
    IN  IF ~ReadmeExists(name) THEN NotFound(o, name)
        ELSE \E checked \in {SU_CompleteTask(Content(name), taskId)} :
             /\ backlog' = [backlog EXCEPT ![name][README] = updateProgressFromTasks(checked)]
             /\ Returns(o, "ok", NoValue,
                        parsed \o Rewrite(name) \o <<ReadFile(name)>> \o Rewrite(name))
             /\ UNCHANGED <<completedDir, config>>

CompleteTask(name, taskId) ==
    LET o == Op("CompleteTask", name, "", taskId)
        parsed == <<FileExists(name), ReadFile(name)>>
    IN  IF ~ReadmeExists(name) THEN NotFound(o, name)
        ELSE IF ScannerErr(Content(name)) THEN ParseFailed(o, name)
        ELSE \E item \in {ParseWorkItem(name, Content(name))} :
             \E globalTaskId \in {GlobalTaskId(item, taskId)} :
                IF taskId < 0 \/ taskId >= Len(PhaseTasks(item)) \/ globalTaskId = -1
                THEN /\ Returns(o, "ValidationError", NoValue, parsed)
                     /\ UNCHANGED <<backlog, completedDir, config>>
                ELSE \E checked \in {SU_CompleteTask(Content(name), globalTaskId)} :
                     /\ backlog' = [backlog EXCEPT ![name][README] =
                                       updateProgressFromTasks(checked)]
                     /\ Returns(o, "ok", NoValue,
                                parsed \o Rewrite(name)
                                \o <<ReadFile(name)>> \o Rewrite(name))
                     /\ UNCHANGED <<completedDir, config>>

\* An UpdateProgress that writes any percent.
UpdateProgress_Unchecked(name, progress) ==
    LET o == Op("UpdateProgress", name, "", progress)
    IN  IF ~ReadmeExists(name) THEN NotFound(o, name)
        ELSE /\ backlog' = [backlog EXCEPT ![name][README] = SU_UpdateProgress(@, progress)]
             /\ Returns(o, "ok", NoValue, <<FileExists(name)>> \o Rewrite(name))
             /\ UNCHANGED <<completedDir, config>>

UpdateProgress(name, progress) ==
    LET o == Op("UpdateProgress", name, "", progress)
    IN  IF progress < 0 \/ progress > 100
        THEN /\ Returns(o, "ValidationError", NoValue, <<>>)
             /\ UNCHANGED <<backlog, completedDir, config>>
        ELSE IF ~ReadmeExists(name) THEN NotFound(o, name)
        ELSE /\ backlog' = [backlog EXCEPT ![name][README] = SU_UpdateProgress(@, progress)]
             /\ Returns(o, "ok", NoValue, <<FileExists(name)>> \o Rewrite(name))
             /\ UNCHANGED <<completedDir, config>>

AssignWorkItem(name, assignee) ==
    LET o == Op("AssignWorkItem", name, assignee, 0)
    IN  IF assignee = ""
        THEN /\ Returns(o, "ValidationError", NoValue, <<>>)
             /\ UNCHANGED <<backlog, completedDir, config>>
        ELSE IF ~ReadmeExists(name) THEN NotFound(o, name)
        ELSE /\ backlog' = [backlog EXCEPT ![name][README] = SU_UpdateAssignee(@, assignee)]
             /\ Returns(o, "ok", NoValue, <<FileExists(name)>> \o Rewrite(name))
             /\ UNCHANGED <<completedDir, config>>

\* The auto-assignment of AdvancePhase on the document just rewritten:
\* gitUser is the git client's answer to GetGitUserName, assigneeWritten the
\* file system's answer to the write of UpdateAssignee.
AutoAssign(doc, name, nextPhase, gitUser, assigneeWritten) ==
    IF nextPhase = PhaseExecution /\ config.AutoAssignAgent
    THEN LET currentItem == ParseWorkItem(name, doc)
             asked == <<ReadFile(name), Call("GetGitUserName", <<>>)>>
         IN  IF currentItem.AssignedTo = "" \/ currentItem.AssignedTo = "human"
             THEN (IF gitUser.err
                   THEN [doc |-> doc,
                         calls |-> Append(asked,
                             Printf("Warning: Could not get git user name for auto-assignment"))]
                   ELSE IF gitUser.name = ""
                   THEN [doc |-> doc, calls |-> asked]
                   ELSE IF ~assigneeWritten
                   THEN [doc |-> doc,
                         calls |-> asked \o Rewrite(name)
                             \o <<Call("Printf", <<"Warning: Could not auto-assign work item to",
                                                   gitUser.name>>)>>]
                   ELSE [doc |-> SU_UpdateAssignee(doc, gitUser.name),
                         calls |-> asked \o Rewrite(name)
                             \o <<Call("Printf", <<"Auto-assigned work item to",
                                                   gitUser.name>>)>>])
             ELSE [doc |-> doc, calls |-> <<ReadFile(name)>>]
    ELSE [doc |-> doc, calls |-> <<>>]

\* An advance that asks for the branch of the new phase before it writes the
\* document.
AdvancePhase_BranchFirst(name, gitUser, answer, assigneeWritten) ==
    LET o == Op("AdvancePhase", name, "", 0)
        parsed == <<FileExists(name), ReadFile(name)>>
    IN  IF ~ReadmeExists(name) THEN NotFound(o, name)
        ELSE IF ScannerErr(Content(name)) THEN ParseFailed(o, name)
        ELSE \E item \in {ParseWorkItem(name, Content(name))} :
             \E next \in {getNextPhase(item.Phase, item.Status)} :
                IF ~validatePhaseTasksCompleted(item) \/ next.err
                THEN /\ Returns(o, "PhaseError", NoValue, parsed)
                     /\ UNCHANGED <<backlog, completedDir, config>>
                ELSE \E written \in {SU_UpdatePhaseAndStatus(Content(name),
                                                             next.phase, next.status)} :
                     \E auto \in {AutoAssign(written, name, next.phase, gitUser,
                                                 assigneeWritten)} :
                        /\ backlog' = [backlog EXCEPT ![name][README] = auto.doc]
                        /\ Returns(o, "ok", NoValue,
                              parsed
                              \o BranchRequests(
                                   PhaseBranchName(item.Type, item.Name, next.phase),
                                   answer)
                              \o Rewrite(name) \o auto.calls)
                        /\ UNCHANGED <<completedDir, config>>

AdvancePhase(name, gitUser, answer, assigneeWritten) ==
    LET o == Op("AdvancePhase", name, "", 0)
        parsed == <<FileExists(name), ReadFile(name)>>
    IN  IF ~ReadmeExists(name) THEN NotFound(o, name)
        ELSE IF ScannerErr(Content(name)) THEN ParseFailed(o, name)
        ELSE \E item \in {ParseWorkItem(name, Content(name))} :
             \E next \in {getNextPhase(item.Phase, item.Status)} :
                IF ~validatePhaseTasksCompleted(item) \/ next.err
                THEN /\ Returns(o, "PhaseError", NoValue, parsed)
                     /\ UNCHANGED <<backlog, completedDir, config>>
                ELSE \E written \in {SU_UpdatePhaseAndStatus(Content(name),
                                                             next.phase, next.status)} :
                     \E auto \in {AutoAssign(written, name, next.phase, gitUser,
                                                 assigneeWritten)} :
                        /\ backlog' = [backlog EXCEPT ![name][README] = auto.doc]
                        /\ Returns(o, "ok", NoValue,
                              parsed \o Rewrite(name) \o auto.calls
                              \o BranchRequests(
                                   PhaseBranchName(item.Type, item.Name, next.phase),
                                   answer))
                        /\ UNCHANGED <<completedDir, config>>

\* filepath.Join(config.CompletedDir, name)
CompletedPath(name) == <<"completed">> \o name

POSTMORTEM == "POSTMORTEM.md"

\* The text GeneratePostmortem writes, line by line: the heading with the
\* item's name, the completion date and the sections of the retrospective.
PostmortemTemplate(name) ==
    << <<Facet("text", "# Postmortem:", 0, TRUE, name)>>,
       <<TextLine("")>>,
       <<HeadingLine("## Completion Date")>>,
       <<ProseLine("2006-01-02")>>,
       <<TextLine("")>>,
       <<HeadingLine("## Summary")>>,
       <<TaskLine(FALSE, "What was accomplished?")>>,
       <<TaskLine(FALSE, "Key challenges faced?")>>,
       <<TaskLine(FALSE, "Lessons learned?")>>,
       <<TextLine("")>>,
       <<HeadingLine("## Metrics")>>,
       <<TextLine("- Development time:")>>,
       <<TextLine("- Lines of code added/modified:")>>,
       <<TextLine("- Tests added:")>>,
       <<TextLine("")>>,
       <<HeadingLine("## What Went Well")>>,
       <<TextLine("-")>>,
       <<TextLine("")>>,
       <<HeadingLine("## What Could Be Improved")>>,
       <<TextLine("-")>>,
       <<TextLine("")>>,
       <<HeadingLine("## Follow-up Items")>>,
       <<TaskLine(FALSE, "Documentation updates needed")>>,
       <<TaskLine(FALSE, "Technical debt created")>>,
       <<TaskLine(FALSE, "Future enhancements identified")>> >>

\* A store without one of its directories.
Without(store, name) == [d \in DOMAIN store \ {name} |-> store[d]]

\* A rename that replaces whatever the destination holds.
MoveFails_Never(name) == FALSE

\* os.Rename of a directory (rename(2)): it fails when the destination is a
\* directory that holds a file.
MoveFails(name) == name \in DOMAIN completedDir /\ DOMAIN completedDir[name] # {}

\* An archive that takes completed items only.
ArchiveWorkItem_Gated(name, postmortemWritten) ==
    LET o == Op("ArchiveWorkItem", name, "", 0)
        found == <<Call("DirectoryExists", BacklogPath(name))>>
        moved == found \o <<Call("CreateDirectory", <<"completed">>),
                            Call("MoveDirectory", BacklogPath(name) \o CompletedPath(name))>>
    IN  /\ UNCHANGED config
        /\ IF name \notin DOMAIN backlog
           THEN /\ Returns(o, "NotFound", NoValue, found)
                /\ UNCHANGED <<backlog, completedDir>>
           ELSE IF \/ MoveFails(name)
                   \/ /\ README \in DOMAIN backlog[name]
                      /\ ParseWorkItem(name, backlog[name][README]).Status
                            # StatusCompleted
           THEN /\ Returns(o, "MoveError", NoValue, found)
                /\ UNCHANGED <<backlog, completedDir>>
           ELSE /\ backlog' = Without(backlog, name)
                /\ completedDir' =
                      (name :> (IF postmortemWritten
                                THEN (POSTMORTEM :> PostmortemTemplate(name)) @@ backlog[name]
                                ELSE backlog[name]))
                      @@ Without(completedDir, name)
                /\ Returns(o, "ok", NoValue, moved)

\* An archive that copies the directory and leaves it in the backlog.
ArchiveWorkItem_Copies(name, postmortemWritten) ==
    LET o == Op("ArchiveWorkItem", name, "", 0)
        found == <<Call("DirectoryExists", BacklogPath(name))>>
    IN  /\ UNCHANGED <<backlog, config>>
        /\ IF name \notin DOMAIN backlog
           THEN /\ Returns(o, "NotFound", NoValue, found)
                /\ UNCHANGED completedDir
           ELSE /\ completedDir' =
                      (name :> (IF postmortemWritten
                                THEN (POSTMORTEM :> PostmortemTemplate(name)) @@ backlog[name]
                                ELSE backlog[name]))
                      @@ Without(completedDir, name)
                /\ Returns(o, "ok", NoValue, found)

\* postmortemWritten: the file system's answer to the write of POSTMORTEM.md,
\* whose failure is logged and not returned.
ArchiveWorkItem(name, postmortemWritten) ==
    LET o == Op("ArchiveWorkItem", name, "", 0)
        found == <<Call("DirectoryExists", BacklogPath(name))>>
        moved == found \o <<Call("CreateDirectory", <<"completed">>),
                            Call("MoveDirectory", BacklogPath(name) \o CompletedPath(name))>>
        written == Call("WriteFile", CompletedPath(name) \o <<POSTMORTEM>>)
    IN  /\ UNCHANGED config
        /\ IF name \notin DOMAIN backlog
           THEN /\ Returns(o, "NotFound", NoValue, found)
                /\ UNCHANGED <<backlog, completedDir>>
           ELSE IF MoveFails(name)
           THEN /\ Returns(o, "MoveError", NoValue, moved)
                /\ UNCHANGED <<backlog, completedDir>>
           ELSE /\ backlog' = Without(backlog, name)
                /\ completedDir' =
                      (name :> (IF postmortemWritten
                                THEN (POSTMORTEM :> PostmortemTemplate(name)) @@ backlog[name]
                                ELSE backlog[name]))
                      @@ Without(completedDir, name)
                /\ Returns(o, "ok", NoValue,
                       Append(moved, written)
                       \o (IF postmortemWritten THEN <<>>
                           ELSE <<Printf("Warning: Could not create postmortem template")>>))

\* os.ReadDir returns the entries sorted by file name: the directory names of
\* the model in that order.
DirOrder ==
    << <<"bug", "login">>, <<"experiment", "login">>, <<"feature", "login">> >>

ListDirectories(store) == SelectSeq(DirOrder, LAMBDA d : d \in DOMAIN store)

\* A filter that looks at the status alone.
matchesFilter_StatusOnly(item, status, itemType) ==
    ~(status # "" /\ item.Status # status)

matchesFilter(item, status, itemType) ==
    /\ ~(status # "" /\ item.Status # status)
    /\ ~(itemType # "" /\ item.Type # itemType)

\* The loop of listWorkItemsInDir over dirs[i..]: the items parsed, and the
\* requests made.  A directory without README.md and a document that does not
\* parse are passed over.
RECURSIVE listWorkItemsInDir(_, _)
listWorkItemsInDir(dirs, i) ==
    IF i > Len(dirs) THEN [items |-> <<>>, calls |-> <<>>]
    ELSE LET name == dirs[i]
             rest == listWorkItemsInDir(dirs, i + 1)
         IN  IF ~ReadmeExists(name)
             THEN [rest EXCEPT !.calls = <<FileExists(name)>> \o @]
             ELSE IF ScannerErr(Content(name))
             THEN [rest EXCEPT !.calls = <<FileExists(name), ReadFile(name),
                                           Printf("Warning: Could not parse")>> \o @]
             ELSE [items |-> <<ParseWorkItem(name, Content(name))>> \o rest.items,
                   calls |-> <<FileExists(name), ReadFile(name)>> \o rest.calls]

\* The backlog directory itself exists (a listing of a missing one is empty
\* as well).
ListWorkItems(status, itemType) ==
    LET o == [Op("ListWorkItems", <<>>, status, 0) EXCEPT !.t = itemType]
    IN  \E listed \in {listWorkItemsInDir(ListDirectories(backlog), 1)} :
           /\ Returns(o, "ok",
                      [Items |-> SelectSeq(listed.items,
                                   LAMBDA item : matchesFilter(item, status, itemType))],
                      <<Call("DirectoryExists", <<"backlog">>),
                        Call("ListDirectories", <<"backlog">>)>> \o listed.calls)
           /\ UNCHANGED <<backlog, completedDir, config>>

-----------------------------------------------------------------------------
(* The service over an empty backlog: an item is created from the feature
   template and its tasks are completed and its phases advanced in any order
   the callers choose. *)

CreateTypes == {TypeFeature, "", "widget"}
CreateNames == {<<>>, <<"login">>}
ItemNames == {<<"feature", "login">>}
GitUsers == {[err |-> TRUE, name |-> ""], [err |-> FALSE, name |-> ""],
             [err |-> FALSE, name |-> "test-user"]}
Configs == {DefaultConfig, [AutoAssignAgent |-> FALSE, EnableGit |-> TRUE]}

\* The largest task index a caller passes to CompleteTask.
MaxTaskId == 7
TaskIds == -1..MaxTaskId

Idle == [pc |-> "create", item |-> <<>>, i |-> 0, j |-> 0, n |-> 0]

Init ==
    /\ backlog = <<>>
    /\ completedDir = <<>>
    /\ config \in Configs
    /\ op = Op("NewWorkItemService", <<>>, "", 0)
    /\ result = "ok"
    /\ ret = NoValue
    /\ calls = <<>>
    /\ workflow = Idle
    /\ inflight = Nobody

Next ==
    \/ \E t \in CreateTypes, n \in CreateNames, b \in BranchOk :
          CreateWorkItem(t, n, b, TRUE) /\ UNCHANGED workflow
    \/ \E n \in ItemNames : GetWorkItem(n) /\ UNCHANGED workflow
    \/ \E n \in ItemNames : GetPhaseTasks(n) /\ UNCHANGED workflow
    \/ \E n \in ItemNames : GetProgressMetrics(n) /\ UNCHANGED workflow
    \/ \E n \in ItemNames, k \in TaskIds : CompleteTask(n, k) /\ UNCHANGED workflow
    \/ \E n \in ItemNames, g \in GitUsers, b \in BranchOk :
          AdvancePhase(n, g, b, TRUE) /\ UNCHANGED workflow

Spec == Init /\ [][Next]_vars

\* The item of a name as a caller reads it, and whether it exists.
Exists(name) == ReadmeExists(name)
Item(name) == ParseWorkItem(name, Content(name))
ItemAfter(name) == ParseWorkItem(name, backlog'[name][README])

-----------------------------------------------------------------------------
(* The service over a backlog that holds one document written by hand: the
   files are markdown that people edit.  The callers also use the overrides
   (UpdateStatus, SetPhase, AssignWorkItem). *)

\* A README.md with the metadata lines of the templates and three tasks;
\* withStatus: it has a status line.
HandWritten(withStatus) ==
    << <<TitleLine("Feature", <<"login">>)>>,
       <<TextLine("")>> >>
    \o (IF withStatus THEN << <<StatusLine(StatusProposed)>> >> ELSE <<>>)
    \o << <<PhaseLine(PhaseDiscovery)>>,
          <<ProgressLine(0)>>,
          <<AssigneeLine("human")>>,
          <<SectionLine("Discovery")>>,
          <<TaskLine(FALSE, "Interview users")>>,
          <<TaskLine(FALSE, "List constraints")>>,
          <<SectionLine("Planning")>>,
          <<TaskLine(FALSE, "Write design")>> >>

StatusInputs == ValidStatuses \cup {"DONE"}
PhaseInputs == ValidPhases \cup {"review"}
AssigneeInputs == {"", "human", "alice"}
HandTaskIds == -1..2

InitAdmin ==
    /\ \E withStatus \in BOOLEAN :
          backlog = (<<"feature", "login">> :> (README :> HandWritten(withStatus)))
    /\ completedDir = <<>>
    /\ config = DefaultConfig
    /\ op = Op("NewWorkItemService", <<>>, "", 0)
    /\ result = "ok"
    /\ ret = NoValue
    /\ calls = <<>>
    /\ workflow = Idle
    /\ inflight = Nobody

NextAdmin ==
    \/ \E n \in ItemNames : GetWorkItem(n) /\ UNCHANGED workflow
    \/ \E n \in ItemNames, s \in StatusInputs : UpdateStatus(n, s) /\ UNCHANGED workflow
    \/ \E n \in ItemNames, p \in PhaseInputs : SetPhase(n, p) /\ UNCHANGED workflow
    \/ \E n \in ItemNames, a \in AssigneeInputs :
          AssignWorkItem(n, a) /\ UNCHANGED workflow
    \/ \E n \in ItemNames, k \in HandTaskIds : CompleteTask(n, k) /\ UNCHANGED workflow
    \/ \E n \in ItemNames, g \in GitUsers, b \in BranchOk :
          AdvancePhase(n, g, b, TRUE) /\ UNCHANGED workflow

SpecAdmin == InitAdmin /\ [][NextAdmin]_vars

-----------------------------------------------------------------------------
(* The service over a hand-written document whose check list may hold a
   check box with nothing written behind it. *)

\* bare: the Discovery section starts with an empty check box "- [ ]".
CheckList(bare) ==
    << <<TitleLine("Feature", <<"login">>)>>,
       <<TextLine("")>>,
       <<StatusLine(StatusProposed)>>,
       <<PhaseLine(PhaseDiscovery)>>,
       <<ProgressLine(0)>>,
       <<AssigneeLine("agent")>>,
       <<SectionLine("Discovery")>> >>
    \o (IF bare THEN << <<BoxLine(FALSE)>> >> ELSE <<>>)
    \o << <<TaskLine(FALSE, "Interview users")>>,
          <<TaskLine(FALSE, "List constraints")>>,
          <<SectionLine("Planning")>>,
          <<TaskLine(FALSE, "Write design")>> >>

ProgressInputs == {-1, 50, 101}

InitTasks ==
    /\ \E bare \in BOOLEAN :
          backlog = (<<"feature", "login">> :> (README :> CheckList(bare)))
    /\ completedDir = <<>>
    /\ config = DefaultConfig
    /\ op = Op("NewWorkItemService", <<>>, "", 0)
    /\ result = "ok"
    /\ ret = NoValue
    /\ calls = <<>>
    /\ workflow = Idle
    /\ inflight = Nobody

NextTasks ==
    \/ \E n \in ItemNames : GetPhaseTasks(n) /\ UNCHANGED workflow
    \/ \E n \in ItemNames : GetProgressMetrics(n) /\ UNCHANGED workflow
    \/ \E n \in ItemNames, k \in HandTaskIds : CompleteTask(n, k) /\ UNCHANGED workflow
    \/ \E n \in ItemNames, p \in ProgressInputs :
          UpdateProgress(n, p) /\ UNCHANGED workflow
    \/ \E n \in ItemNames, p \in PhaseInputs : SetPhase(n, p) /\ UNCHANGED workflow
    \/ \E n \in ItemNames, g \in GitUsers, b \in BranchOk :
          AdvancePhase(n, g, b, TRUE) /\ UNCHANGED workflow

SpecTasks == InitTasks /\ [][NextTasks]_vars

-----------------------------------------------------------------------------
(* The store: items of every type created side by side and read back. *)

StoreTypes == ValidTypes \cup {"", "widget"}
StoreNames == {getWorkItemDirName(t, <<"login">>) : t \in ValidTypes}

NextStore ==
    \/ \E t \in StoreTypes, n \in CreateNames, b \in BranchOk :
          CreateWorkItem(t, n, b, TRUE) /\ UNCHANGED workflow
    \/ \E n \in StoreNames : GetWorkItem(n) /\ UNCHANGED workflow

SpecStore == Init /\ [][NextStore]_vars

-----------------------------------------------------------------------------
(* The metadata fields: an item is created from the feature template and its
   status, progress, assignee and phase are set in any order and read back. *)

FieldStatuses == {StatusInProgressPlanning, "DONE"}
FieldPhases == {PhasePlanning, "review"}
FieldProgress == {-1, 50}
FieldAssignees == {"", Blank, "alice"}

NextFields ==
    \/ \E t \in CreateTypes, n \in CreateNames, b \in BranchOk :
          CreateWorkItem(t, n, b, TRUE) /\ UNCHANGED workflow
    \/ \E n \in ItemNames : GetWorkItem(n) /\ UNCHANGED workflow
    \/ \E n \in ItemNames, s \in FieldStatuses : UpdateStatus(n, s) /\ UNCHANGED workflow
    \/ \E n \in ItemNames, p \in FieldProgress :
          UpdateProgress(n, p) /\ UNCHANGED workflow
    \/ \E n \in ItemNames, a \in FieldAssignees :
          AssignWorkItem(n, a) /\ UNCHANGED workflow
    \/ \E n \in ItemNames, p \in FieldPhases : SetPhase(n, p) /\ UNCHANGED workflow

SpecFields == Init /\ [][NextFields]_vars

-----------------------------------------------------------------------------
(* The two stores: a backlog that holds a document written by hand, a document
   the parser cannot read and a directory without a document; items are
   created, listed, overridden and archived. *)

\* A README.md whose progress line nobody has brought up to date: one of its
\* two tasks is checked, the progress reads 0%.
BugReport ==
    << <<TitleLine("Bug", <<"login">>)>>,
       <<TextLine("")>>,
       <<StatusLine(StatusInProgressExecution)>>,
       <<PhaseLine(PhaseExecution)>>,
       <<ProgressLine(0)>>,
       <<AssigneeLine("human")>>,
       <<SectionLine("Execution")>>,
       <<TaskLine(TRUE, "Reproduce the failure")>>,
       <<TaskLine(FALSE, "Fix the session check")>> >>

\* A README.md with a line the scanner cannot hold.
Oversized ==
    << <<TitleLine("Experiment", <<"login">>)>>,
       <<TextLine("")>>,
       <<StatusLine(StatusProposed)>>,
       <<PhaseLine(PhaseDiscovery)>>,
       <<ProgressLine(0)>>,
       <<AssigneeLine("human")>>,
       <<LongLine>>,
       <<SectionLine("Discovery")>>,
       <<TaskLine(FALSE, "Measure the login time")>> >>

ArchiveTypes == {TypeFeature, "widget"}
ArchiveNames == {<<"bug", "login">>, <<"feature", "login">>}
ArchiveStatuses == {StatusCompleted, "DONE"}
FilterStatuses == {"", StatusCompleted}
FilterTypes == {"", TypeBug}

InitArchive ==
    /\ backlog = (<<"bug", "login">> :> (README :> BugReport))
                 @@ (<<"experiment", "login">> :> (README :> Oversized))
                 @@ (<<"feature", "login">> :> EmptyDir)
    /\ completedDir = <<>>
    /\ config = DefaultConfig
    /\ op = Op("NewWorkItemService", <<>>, "", 0)
    /\ result = "ok"
    /\ ret = NoValue
    /\ calls = <<>>
    /\ workflow = Idle
    /\ inflight = Nobody

NextArchive ==
    \/ \E t \in ArchiveTypes, n \in CreateNames :
          CreateWorkItem(t, n, "created", TRUE) /\ UNCHANGED workflow
    \/ \E s \in FilterStatuses, t \in FilterTypes :
          ListWorkItems(s, t) /\ UNCHANGED workflow
    \/ \E n \in StoreNames : GetWorkItem(n) /\ UNCHANGED workflow
    \/ \E n \in StoreNames : GetPhaseTasks(n) /\ UNCHANGED workflow
    \/ \E n \in StoreNames : GetProgressMetrics(n) /\ UNCHANGED workflow
    \/ \E n \in StoreNames, s \in ArchiveStatuses :
          UpdateStatus(n, s) /\ UNCHANGED workflow
    \/ \E n \in ArchiveNames, w \in BOOLEAN :
          ArchiveWorkItem(n, w) /\ UNCHANGED workflow

SpecArchive == InitArchive /\ [][NextArchive]_vars

-----------------------------------------------------------------------------
(* Every operation that takes a name, called with valid arguments on the
   directories of the archive backlog: one of them has no README.md, and an
   archived one is no longer there. *)

MissingNames == {<<"bug", "login">>, <<"feature", "login">>}
GitUser == [err |-> FALSE, name |-> "test-user"]

NextMissing ==
    \/ \E n \in MissingNames : GetWorkItem(n) /\ UNCHANGED workflow
    \/ \E n \in MissingNames :
          UpdateStatus(n, StatusInProgressExecution) /\ UNCHANGED workflow
    \/ \E n \in MissingNames : UpdateProgress(n, 50) /\ UNCHANGED workflow
    \/ \E n \in MissingNames : AssignWorkItem(n, "alice") /\ UNCHANGED workflow
    \/ \E n \in MissingNames : SetPhase(n, PhaseExecution) /\ UNCHANGED workflow
    \/ \E n \in MissingNames : GetPhaseTasks(n) /\ UNCHANGED workflow
    \/ \E n \in MissingNames : CompleteTask(n, 1) /\ UNCHANGED workflow
    \/ \E n \in MissingNames : AdvancePhase(n, GitUser, "created", TRUE) /\ UNCHANGED workflow
    \/ \E n \in MissingNames : GetProgressMetrics(n) /\ UNCHANGED workflow
    \/ \E n \in MissingNames : ArchiveWorkItem(n, TRUE) /\ UNCHANGED workflow

SpecMissing == InitArchive /\ [][NextMissing]_vars

-----------------------------------------------------------------------------
(* The side effects: the hand-written item is assigned, its tasks completed,
   its phases advanced and the item archived while the git client and the
   file system answer as they like to the requests that follow the primary
   write; a bug report is created next to it. *)

FaultAssignees == {Blank, "agent"}
FaultTaskIds == {0, 1}

InitFaults ==
    /\ backlog = (<<"feature", "login">> :> (README :> HandWritten(TRUE)))
    /\ completedDir = <<>>
    /\ config \in Configs
    /\ op = Op("NewWorkItemService", <<>>, "", 0)
    /\ result = "ok"
    /\ ret = NoValue
    /\ calls = <<>>
    /\ workflow = Idle
    /\ inflight = Nobody

NextFaults ==
    \/ \E b \in BranchAnswers, w \in BOOLEAN :
          CreateWorkItem(TypeBug, <<"login">>, b, w) /\ UNCHANGED workflow
    \/ \E n \in ItemNames : GetWorkItem(n) /\ UNCHANGED workflow
    \/ \E n \in ItemNames, a \in FaultAssignees :
          AssignWorkItem(n, a) /\ UNCHANGED workflow
    \/ \E n \in ItemNames, k \in FaultTaskIds : CompleteTask(n, k) /\ UNCHANGED workflow
    \/ \E n \in ItemNames, g \in GitUsers, b \in BranchAnswers, w \in BOOLEAN :
          AdvancePhase(n, g, b, w) /\ UNCHANGED workflow
    \/ \E n \in ItemNames, w \in BOOLEAN : ArchiveWorkItem(n, w) /\ UNCHANGED workflow

SpecFaults == InitFaults /\ [][NextFaults]_vars

-----------------------------------------------------------------------------
(* The commands of the go-pm binary over an empty backlog: "new feature
   login" creates the item and every other command hands the name it was
   given, the one typed after "new feature" or the directory's, to the
   service. *)

CommandNames == {<<"login">>, <<"feature", "login">>}
CommandTaskIds == {0, 1}
CommandProgress == {-1, 0, 100, 101}

NextCommands ==
    \/ \E b \in BranchOk, w \in BOOLEAN :
          CreateWorkItem(TypeFeature, <<"login">>, b, w) /\ UNCHANGED workflow
    \/ \E n \in CommandNames : GetWorkItem(n) /\ UNCHANGED workflow
    \/ \E n \in CommandNames, k \in CommandTaskIds :
          CompleteTask(n, k) /\ UNCHANGED workflow
    \/ \E n \in CommandNames, p \in CommandProgress :
          UpdateProgress(n, p) /\ UNCHANGED workflow
    \/ \E n \in CommandNames, g \in GitUsers :
          AdvancePhase(n, g, "created", TRUE) /\ UNCHANGED workflow
    \/ \E n \in CommandNames : ArchiveWorkItem(n, TRUE) /\ UNCHANGED workflow

SpecCommands == Init /\ [][NextCommands]_vars

-----------------------------------------------------------------------------
(* The parser over documents of a few lines: every sequence of up to MaxLines
   lines, each a metadata line, a section heading, a task line, an empty line
   or a line the scanner cannot hold, stored under a name with a type prefix
   and under one without, and read by the service. *)

MaxLines == 3

ParserLines ==
    { <<StatusLine(StatusInProgressReview)>>, <<PhaseLine(PhaseCleanup)>>,
      <<ProgressLine(50)>>, <<AssigneeLine("alice")>>,
      <<SectionLine("Planning")>>, <<SectionLine("Review")>>,
      <<TaskLine(FALSE, "Interview users")>>, <<TaskLine(TRUE, "Write design")>>,
      <<TextLine("")>>, <<LongLine>> }

ParserDocs == UNION {[1..n -> ParserLines] : n \in 0..MaxLines}
ParserNames == {<<"feature", "login">>, <<"login">>}

InitParser ==
    /\ \E doc \in ParserDocs : backlog = [n \in ParserNames |-> (README :> doc)]
    /\ completedDir = <<>>
    /\ config = DefaultConfig
    /\ op = Op("NewWorkItemService", <<>>, "", 0)
    /\ result = "ok"
    /\ ret = NoValue
    /\ calls = <<>>
    /\ workflow = Idle
    /\ inflight = Nobody

NextParser ==
    \/ \E n \in ParserNames : GetWorkItem(n) /\ UNCHANGED workflow
    \/ \E n \in ParserNames : GetPhaseTasks(n) /\ UNCHANGED workflow

SpecParser == InitParser /\ [][NextParser]_vars

-----------------------------------------------------------------------------
(* The updates over documents that lack metadata lines: a README.md with any
   subset of the title and the four metadata lines, in the templates' order,
   above a section with one task. *)

HeaderKinds == {"title", "status", "phase", "progress", "assignee"}

InsertDoc(present) ==
    (IF "title" \in present
     THEN << <<TitleLine("Feature", <<"login">>)>>, <<TextLine("")>> >> ELSE <<>>)
    \o (IF "status" \in present THEN << <<StatusLine(StatusProposed)>> >> ELSE <<>>)
    \o (IF "phase" \in present THEN << <<PhaseLine(PhaseDiscovery)>> >> ELSE <<>>)
    \o (IF "progress" \in present THEN << <<ProgressLine(0)>> >> ELSE <<>>)
    \o (IF "assignee" \in present THEN << <<AssigneeLine("agent")>> >> ELSE <<>>)
    \o << <<SectionLine("Discovery")>>, <<TaskLine(FALSE, "Interview users")>> >>

InitInsert ==
    /\ \E present \in SUBSET HeaderKinds :
          backlog = (<<"feature", "login">> :> (README :> InsertDoc(present)))
    /\ completedDir = <<>>
    /\ config = DefaultConfig
    /\ op = Op("NewWorkItemService", <<>>, "", 0)
    /\ result = "ok"
    /\ ret = NoValue
    /\ calls = <<>>
    /\ workflow = Idle
    /\ inflight = Nobody

NextInsert ==
    \/ \E n \in ItemNames : GetWorkItem(n) /\ UNCHANGED workflow
    \/ \E n \in ItemNames : UpdateStatus(n, StatusInProgressPlanning) /\ UNCHANGED workflow
    \/ \E n \in ItemNames : UpdateProgress(n, 50) /\ UNCHANGED workflow
    \/ \E n \in ItemNames : AssignWorkItem(n, "alice") /\ UNCHANGED workflow
    \/ \E n \in ItemNames : SetPhase(n, PhasePlanning) /\ UNCHANGED workflow

SpecInsert == InitInsert /\ [][NextInsert]_vars

-----------------------------------------------------------------------------
(* Two invocations on one item at the same time.  The service takes no lock
   and the files are read and written whole, so an invocation is a sequence
   of steps, one for each parse, read and write of the document, and the
   steps of the two invocations interleave in any order.  Each invocation
   makes one call: UpdateProgress, AssignWorkItem or CompleteTask. *)

ConcurrentItem == <<"feature", "login">>
ConcurrentProgress == {50, 101}
ConcurrentTaskIds == {0, 1}

\* The invocation returns: the call, its error and the requests it made.
Finish(c, me, err, made) ==
    /\ inflight' = [inflight EXCEPT ![c] = [me EXCEPT !.pc = "done", !.res = err]]
    /\ op' = Op(me.name, ConcurrentItem, me.s, me.n)
    /\ result' = err
    /\ ret' = NoValue
    /\ calls' = made

\* The requests of a whole call, as the call that runs alone makes them.
MadeBy(me) ==
    IF me.name = "CompleteTask"
    THEN <<FileExists(ConcurrentItem), ReadFile(ConcurrentItem)>>
         \o Rewrite(ConcurrentItem) \o <<ReadFile(ConcurrentItem)>> \o Rewrite(ConcurrentItem)
    ELSE <<FileExists(ConcurrentItem)>> \o Rewrite(ConcurrentItem)

\* The start of a call: the validation of its arguments and FileExists.
Invoke(c, opName, s, n) ==
    /\ inflight[c].pc = "idle"
    /\ UNCHANGED <<backlog, completedDir, config, workflow>>
    /\ LET me == [Resting EXCEPT !.name = opName, !.s = s, !.n = n]
       IN  IF \/ opName = "UpdateProgress" /\ (n < 0 \/ n > 100)
              \/ opName = "AssignWorkItem" /\ s = ""
           THEN Finish(c, me, "ValidationError", <<>>)
           ELSE IF ~ReadmeExists(ConcurrentItem)
           THEN Finish(c, me, "NotFound", <<FileExists(ConcurrentItem)>>)
           ELSE /\ inflight' = [inflight EXCEPT ![c] =
                      [me EXCEPT !.stage = 1,
                                 !.pc = IF opName = "CompleteTask" THEN "parse" ELSE "read"]]
                /\ UNCHANGED <<op, result, ret, calls>>

\* CompleteTask: ParseWorkItem and the search of the task's global index.
ParseStep(c) ==
    /\ inflight[c].pc = "parse"
    /\ UNCHANGED <<backlog, completedDir, config, workflow>>
    /\ LET me == inflight[c]
           parsed == <<FileExists(ConcurrentItem), ReadFile(ConcurrentItem)>>
       IN  IF ScannerErr(Content(ConcurrentItem)) THEN Finish(c, me, "ParseError", parsed)
           ELSE \E item \in {ParseWorkItem(ConcurrentItem, Content(ConcurrentItem))} :
                \E globalTaskId \in {GlobalTaskId(item, me.n)} :
                   IF me.n < 0 \/ me.n >= Len(PhaseTasks(item)) \/ globalTaskId = -1
                   THEN Finish(c, me, "ValidationError", parsed)
                   ELSE /\ inflight' = [inflight EXCEPT ![c] =
                              [me EXCEPT !.g = globalTaskId, !.pc = "read"]]
                        /\ UNCHANGED <<op, result, ret, calls>>

\* su.fs.ReadFile of a StatusUpdater method: the content it will transform.
ReadStep(c) ==
    /\ inflight[c].pc = "read"
    /\ inflight' = [inflight EXCEPT ![c] =
          [@ EXCEPT !.buf = Content(ConcurrentItem), !.pc = "write"]]
    /\ UNCHANGED <<backlog, completedDir, config, workflow, op, result, ret, calls>>

\* The content a StatusUpdater method makes of the content it has read.
Transformed(me) ==
    CASE me.name = "UpdateProgress" -> SU_UpdateProgress(me.buf, me.n)
      [] me.name = "AssignWorkItem" -> SU_UpdateAssignee(me.buf, me.s)
      [] me.name = "CompleteTask" /\ me.stage = 1 -> SU_CompleteTask(me.buf, me.g)
      [] OTHER -> SU_UpdateProgress(me.buf, me.p)

\* A write that is refused when the file is no longer what was read.
WriteStep_Guarded(c) ==
    /\ inflight[c].pc = "write"
    /\ UNCHANGED <<completedDir, config, workflow>>
    /\ LET me == inflight[c]
       IN  IF me.buf # Content(ConcurrentItem)
           THEN Finish(c, me, "Conflict", MadeBy(me)) /\ UNCHANGED backlog
           ELSE /\ backlog' = [backlog EXCEPT ![ConcurrentItem][README] = Transformed(me)]
                /\ IF me.name = "CompleteTask" /\ me.stage = 1
                   THEN /\ inflight' = [inflight EXCEPT ![c] =
                              [me EXCEPT !.stage = 2, !.pc = "count"]]
                        /\ UNCHANGED <<op, result, ret, calls>>
                   ELSE Finish(c, me, "ok", MadeBy(me))

\* su.fs.WriteFile of a StatusUpdater method: the whole file is replaced.
\* CompleteTask goes on to updateProgressFromTasks, the other calls return.
WriteStep(c) ==
    /\ inflight[c].pc = "write"
    /\ UNCHANGED <<completedDir, config, workflow>>
    /\ LET me == inflight[c]
       IN  /\ backlog' = [backlog EXCEPT ![ConcurrentItem][README] = Transformed(me)]
           /\ IF me.name = "CompleteTask" /\ me.stage = 1
              THEN /\ inflight' = [inflight EXCEPT ![c] =
                         [me EXCEPT !.stage = 2, !.pc = "count"]]
                   /\ UNCHANGED <<op, result, ret, calls>>
              ELSE Finish(c, me, "ok", MadeBy(me))

\* updateProgressFromTasks: ParseTaskList and the percentage.
CountStep(c) ==
    /\ inflight[c].pc = "count"
    /\ \E counted \in {ParseTaskList(Content(ConcurrentItem))} :
          inflight' = [inflight EXCEPT ![c] =
              [@ EXCEPT !.p = Percent(counted.completed, counted.total), !.pc = "read"]]
    /\ UNCHANGED <<backlog, completedDir, config, workflow, op, result, ret, calls>>

InitConcurrent ==
    /\ backlog = (ConcurrentItem :> (README :> HandWritten(TRUE)))
    /\ completedDir = <<>>
    /\ config = DefaultConfig
    /\ op = Op("NewWorkItemService", <<>>, "", 0)
    /\ result = "ok"
    /\ ret = NoValue
    /\ calls = <<>>
    /\ workflow = Idle
    /\ inflight = Nobody

NextConcurrent ==
    \/ \E c \in Callers, p \in ConcurrentProgress : Invoke(c, "UpdateProgress", "", p)
    \/ \E c \in Callers : Invoke(c, "AssignWorkItem", "alice", 0)
    \/ \E c \in Callers, k \in ConcurrentTaskIds : Invoke(c, "CompleteTask", "", k)
    \/ \E c \in Callers : ParseStep(c)
    \/ \E c \in Callers : ReadStep(c)
    \/ \E c \in Callers : WriteStep(c)
    \/ \E c \in Callers : CountStep(c)

SpecConcurrent == InitConcurrent /\ [][NextConcurrent]_vars

-----------------------------------------------------------------------------
(* The life of one feature without overrides: it is created from the
   template, its tasks are completed in the order of the document, its
   progress and assignee are set and its phases are advanced; SetPhase and
   UpdateStatus are not called. *)

\* The index, among the tasks of the current phase, of the first that is not
\* completed (-1: none).
FirstOpen(item) ==
    LET open == {k \in 1..Len(PhaseTasks(item)) : ~PhaseTasks(item)[k].Completed}
    IN  IF open = {} THEN -1 ELSE (CHOOSE k \in open : \A j \in open : k <= j) - 1

NextLifecycle ==
    \/ CreateWorkItem(TypeFeature, <<"login">>, "created", TRUE) /\ UNCHANGED workflow
    \/ \E n \in ItemNames : GetWorkItem(n) /\ UNCHANGED workflow
    \/ \E n \in ItemNames :
          /\ Exists(n)
          /\ \E k \in {FirstOpen(Item(n))} : CompleteTask(n, k)
          /\ UNCHANGED workflow
    \/ \E n \in ItemNames : UpdateProgress(n, 50) /\ UNCHANGED workflow
    \/ \E n \in ItemNames : AssignWorkItem(n, "alice") /\ UNCHANGED workflow
    \/ \E n \in ItemNames, g \in GitUsers :
          AdvancePhase(n, g, "created", TRUE) /\ UNCHANGED workflow

SpecLifecycle == Init /\ [][NextLifecycle]_vars

-----------------------------------------------------------------------------
(* The client that takes one item through the whole workflow
   (TestManagerAdvancePhaseThroughWorkflow): create the item, then, for each
   expected (status, phase), complete every task GetPhaseTasks returns, in
   order, advance, and read the item back.  A failed requirement ends it. *)

testCases ==
    << [expectedStatus |-> StatusInProgressDiscovery, expectedPhase |-> PhaseDiscovery],
       [expectedStatus |-> StatusInProgressPlanning, expectedPhase |-> PhasePlanning],
       [expectedStatus |-> StatusInProgressExecution, expectedPhase |-> PhaseExecution],
       [expectedStatus |-> StatusInProgressCleanup, expectedPhase |-> PhaseCleanup],
       [expectedStatus |-> StatusInProgressReview, expectedPhase |-> PhaseCleanup],
       [expectedStatus |-> StatusCompleted, expectedPhase |-> PhaseCleanup] >>

Walk(pc, item, i, j, n) == [pc |-> pc, item |-> item, i |-> i, j |-> j, n |-> n]

\* require.NoError
Require(next) == IF result' = "ok" THEN next ELSE [workflow EXCEPT !.pc = "failed"]

\* completeFirst: the tasks are completed before the first advance as well
\* (the test completes them from the second on).
WorkflowCreate(itemType, completeFirst, answer) ==
    /\ workflow.pc = "create"
    /\ CreateWorkItem(itemType, <<"login">>, answer, TRUE)
    /\ workflow' = Require(Walk(IF completeFirst THEN "tasks" ELSE "advance",
                                getWorkItemDirName(itemType, <<"login">>), 1, 0, 0))

WorkflowGetPhaseTasks ==
    /\ workflow.pc = "tasks"
    /\ GetPhaseTasks(workflow.item)
    /\ workflow' = Require(IF Len(ret'.Tasks) = 0
                           THEN [workflow EXCEPT !.pc = "advance"]
                           ELSE [workflow EXCEPT !.pc = "complete", !.j = 0,
                                                 !.n = Len(ret'.Tasks)])

WorkflowCompleteTask ==
    /\ workflow.pc = "complete"
    /\ CompleteTask(workflow.item, workflow.j)
    /\ workflow' = Require(IF workflow.j + 1 < workflow.n
                           THEN [workflow EXCEPT !.j = @ + 1]
                           ELSE [workflow EXCEPT !.pc = "advance"])

WorkflowAdvancePhase(gitUser, answer) ==
    /\ workflow.pc = "advance"
    /\ AdvancePhase(workflow.item, gitUser, answer, TRUE)
    /\ workflow' = Require([workflow EXCEPT !.pc = "verify"])

\* assert.Equal on the status and the phase read back.
WorkflowVerify ==
    /\ workflow.pc = "verify"
    /\ GetWorkItem(workflow.item)
    /\ workflow' =
          IF /\ result' = "ok"
             /\ ret'.Status = testCases[workflow.i].expectedStatus
             /\ ret'.Phase = testCases[workflow.i].expectedPhase
          THEN (IF workflow.i = Len(testCases)
                THEN [workflow EXCEPT !.pc = "done"]
                ELSE [workflow EXCEPT !.pc = "tasks", !.i = @ + 1])
          ELSE [workflow EXCEPT !.pc = "failed"]

NextWorkflow ==
    \/ \E t \in ValidTypes, first \in BOOLEAN, b \in BranchOk : WorkflowCreate(t, first, b)
    \/ WorkflowGetPhaseTasks
    \/ WorkflowCompleteTask
    \/ \E g \in GitUsers, b \in BranchOk : WorkflowAdvancePhase(g, b)
    \/ WorkflowVerify

SpecWorkflow == Init /\ [][NextWorkflow]_vars /\ WF_vars(NextWorkflow)

-----------------------------------------------------------------------------
(* Properties of the workflow state machine *)

\* The table of legal transitions, by current status.
AdvanceTable ==
    (StatusProposed :> <<PhaseDiscovery, StatusInProgressDiscovery>>)
    @@ (StatusInProgressDiscovery :> <<PhasePlanning, StatusInProgressPlanning>>)
    @@ (StatusInProgressPlanning :> <<PhaseExecution, StatusInProgressExecution>>)
    @@ (StatusInProgressExecution :> <<PhaseCleanup, StatusInProgressCleanup>>)
    @@ (StatusInProgressCleanup :> <<PhaseCleanup, StatusInProgressReview>>)
    @@ (StatusInProgressReview :> <<PhaseCleanup, StatusCompleted>>)

Advanceable == DOMAIN AdvanceTable

\* Every task whose phase is the item's current phase is completed.
CurrentPhaseDone(item) ==
    \A i \in 1..Len(item.Tasks) :
        item.Tasks[i].Phase = item.Phase => item.Tasks[i].Completed

\* The step is a call of the operation on an item of the backlog.
Called(opName, n) == op'.name = opName /\ op'.item = n /\ Exists(n)

\* The last operation was this one, on an existing item, with this result.
Did(opName, n, res) == op.name = opName /\ op.item = n /\ Exists(n) /\ result = res

\* C1: for every status other than COMPLETED, AdvancePhase succeeds whenever
\* the status is PROPOSED or every task of the current phase is completed,
\* and then the item's (phase, status) is the pair the table gives for the
\* status it had.
C1_AdvanceFollowsTable ==
    [][\A n \in ItemNames :
          Called("AdvancePhase", n) =>
            LET before == Item(n)
                after == ItemAfter(n)
            IN  (/\ before.Status \in Advanceable
                 /\ (before.Status = StatusProposed \/ CurrentPhaseDone(before)))
                => /\ result' = "ok"
                   /\ <<after.Phase, after.Status>> = AdvanceTable[before.Status]
      ]_vars

\* An advance out of IN_PROGRESS_CLEANUP has succeeded, every task of the
\* cleanup phase done: the item is in review, still in cleanup.
C1_Witness ==
    \E n \in ItemNames :
        /\ Did("AdvancePhase", n, "ok")
        /\ Item(n).Status = StatusInProgressReview
        /\ Item(n).Phase = PhaseCleanup
        /\ CurrentPhaseDone(Item(n))

\* C2: AdvancePhase on an item whose status is not PROPOSED and that has an
\* incomplete task of its current phase fails with PhaseError and leaves
\* phase, status, progress, assignee and tasks as they were; from PROPOSED it
\* succeeds whatever the tasks, and the next advance of the item just created
\* is refused while a discovery task is open.
C2_Gating ==
    [][\A n \in ItemNames :
          Called("AdvancePhase", n) =>
            LET before == Item(n)
                after == ItemAfter(n)
            IN  /\ (before.Status # StatusProposed /\ ~CurrentPhaseDone(before))
                   => /\ result' = "PhaseError"
                      /\ after.Phase = before.Phase
                      /\ after.Status = before.Status
                      /\ after.Progress = before.Progress
                      /\ after.AssignedTo = before.AssignedTo
                      /\ after.Tasks = before.Tasks
                /\ before.Status = StatusProposed
                   => result' = "ok" /\ after.Status = StatusInProgressDiscovery
      ]_vars

\* The second advance was refused: the item is in discovery, its last
\* discovery task still open, the others done.
C2_Witness ==
    \E n \in ItemNames :
        /\ Did("AdvancePhase", n, "PhaseError")
        /\ Item(n).Status = StatusInProgressDiscovery
        /\ Len(SelectSeq(PhaseTasks(Item(n)), LAMBDA t : ~t.Completed)) = 1

\* C3: AdvancePhase on an item whose status is COMPLETED, or is none of the
\* six statuses that can advance (UNKNOWN, when the document has no status
\* line), fails with PhaseError whatever the tasks, and the document stays
\* as it was.
C3_TerminalStatusRefused ==
    [][\A n \in ItemNames :
          (Called("AdvancePhase", n) /\ Item(n).Status \notin Advanceable)
          => result' = "PhaseError" /\ backlog' = backlog
      ]_vars

\* An advance of a COMPLETED item, all tasks of its phase done, was refused.
C3_Witness ==
    \E n \in ItemNames :
        /\ Did("AdvancePhase", n, "PhaseError")
        /\ Item(n).Status = StatusCompleted
        /\ CurrentPhaseDone(Item(n))

\* The linear order of the statuses.
StatusOrder ==
    <<StatusProposed, StatusInProgressDiscovery, StatusInProgressPlanning,
      StatusInProgressExecution, StatusInProgressCleanup, StatusInProgressReview,
      StatusCompleted>>

IsSuccessor(s, t) ==
    \E i \in 1..(Len(StatusOrder) - 1) : StatusOrder[i] = s /\ StatusOrder[i + 1] = t

\* C4 as stated: over any sequence of service operations the status of an
\* item only ever changes to its immediate successor in the linear order.
C4_OnlySuccessor ==
    [][\A n \in ItemNames :
          Exists(n) =>
            LET before == Item(n).Status
                after == ItemAfter(n).Status
            IN  after # before => IsSuccessor(before, after)
      ]_vars

\* C4: AdvancePhase only ever moves the status to its immediate successor,
\* SetPhase never changes the status, and the only other operation that
\* changes it is UpdateStatus, which sets whichever valid status it is given
\* (backward or skipping included).
C4_StatusChanges ==
    [][\A n \in ItemNames :
          Exists(n) =>
            LET before == Item(n).Status
                after == ItemAfter(n).Status
            IN  /\ after # before
                   => \/ Called("AdvancePhase", n) /\ IsSuccessor(before, after)
                      \/ /\ Called("UpdateStatus", n)
                         /\ after = op'.s
                         /\ op'.s \in ValidStatuses
                /\ Called("SetPhase", n) => after = before
      ]_vars

\* UpdateStatus has put back to PROPOSED an item that had reached execution
\* (only the advance into execution assigns the git user).
C4_Witness ==
    \E n \in ItemNames :
        /\ Did("UpdateStatus", n, "ok")
        /\ Item(n).Status = StatusProposed
        /\ Item(n).AssignedTo = "test-user"

-----------------------------------------------------------------------------
(* Properties of the walk through the whole workflow *)

\* The item the client walks.
Walked == Item(workflow.item)

\* C5: the loop "complete every task GetPhaseTasks returns, then advance",
\* run on a freshly created item, is never refused, and it ends with the item
\* COMPLETED in the cleanup phase after exactly six successful advances: the
\* item is not COMPLETED before the sixth.
C5_WorkflowCompletes ==
    /\ [](workflow.pc # "failed")
    /\ []((workflow.pc # "create" /\ Walked.Status = StatusCompleted)
            => workflow.i = 6 /\ Walked.Phase = PhaseCleanup)
    /\ <>(workflow.pc = "done" /\ workflow.i = 6 /\ Walked.Status = StatusCompleted)

\* The client has finished: six rounds, the item COMPLETED in cleanup, every
\* task of the document checked.
C5_Witness ==
    /\ workflow.pc = "done"
    /\ workflow.i = 6
    /\ Walked.Status = StatusCompleted
    /\ Walked.Phase = PhaseCleanup
    /\ \A k \in 1..Len(Walked.Tasks) : Walked.Tasks[k].Completed

-----------------------------------------------------------------------------
(* Properties of CompleteTask *)

\* The positions in item.Tasks of the tasks of the item's current phase, in
\* document order: position k + 1 of it is what GetPhaseTasks returns at k.
PhasePositions(item) ==
    SelectSeq([i \in 1..Len(item.Tasks) |-> i],
              LAMBDA i : item.Tasks[i].Phase = item.Phase)

ValidIndex(item, k) == k >= 0 /\ k < Len(PhasePositions(item))

\* C6: for every document and every index k valid for the current phase,
\* CompleteTask(name, k) succeeds and marks completed exactly the task that
\* GetPhaseTasks returns at position k; the completion state of every other
\* task, of any phase, stays as it was.
C6_MarksAddressedTask ==
    [][\A n \in ItemNames :
          Called("CompleteTask", n) =>
            LET before == Item(n)
                after == ItemAfter(n)
            IN  ValidIndex(before, op'.n)
                => /\ result' = "ok"
                   /\ after.Tasks =
                        [before.Tasks EXCEPT
                            ![PhasePositions(before)[op'.n + 1]].Completed = TRUE]
      ]_vars

\* C7: after every successful CompleteTask the progress the document holds
\* is floor(100 * completed / total) over all the tasks of the document,
\* whatever progress was set before, and it is the OverallProgress that
\* GetProgressMetrics computes from the same document.
C7_ProgressFromTasks ==
    [][\A n \in ItemNames :
          (Called("CompleteTask", n) /\ result' = "ok") =>
            LET after == ItemAfter(n)
                done == Len(SelectSeq(after.Tasks, LAMBDA t : t.Completed))
            IN  /\ after.Progress = (100 * done) \div Len(after.Tasks)
                /\ after.Progress = CalculateWorkItemMetrics(after).OverallProgress
      ]_vars

\* C8: CompleteTask with an index that is negative or not smaller than the
\* number of tasks of the current phase fails with ValidationError and
\* writes nothing: the document, so every task and the progress, is as
\* before, also when the document has a task at that index.
C8_InvalidIndexRefused ==
    [][\A n \in ItemNames :
          (Called("CompleteTask", n) /\ ~ValidIndex(Item(n), op'.n))
          => /\ result' = "ValidationError"
             /\ backlog' = backlog
             /\ \A c \in 1..Len(calls') : calls'[c].call # "WriteFile"
      ]_vars

\* Index 5 was refused in a phase of fewer tasks, on a document that has
\* more than five tasks, none of them completed by the call.
C8_Witness ==
    \E n \in ItemNames :
        /\ Did("CompleteTask", n, "ValidationError")
        /\ op.n = 5
        /\ Len(PhasePositions(Item(n))) <= 5
        /\ Len(Item(n).Tasks) > 5
        /\ ~Item(n).Tasks[6].Completed

\* C9: completing a task that is already completed leaves every task as it
\* was, and a second CompleteTask(name, k) directly after a first leaves the
\* document the first one wrote.
C9_Idempotent ==
    [][\A n \in ItemNames :
          (Called("CompleteTask", n) /\ result' = "ok") =>
            LET before == Item(n)
                after == ItemAfter(n)
            IN  /\ before.Tasks[PhasePositions(before)[op'.n + 1]].Completed
                   => after.Tasks = before.Tasks
                /\ (op = op' /\ result = "ok") => backlog' = backlog
      ]_vars

-----------------------------------------------------------------------------
(* Properties of the store *)

\* C10: for every valid type and non-empty name whose directory does not
\* exist, CreateWorkItem succeeds, and a GetWorkItem of "<type>-<name>" that
\* follows returns an item of that directory name, titled with the name, of
\* the requested type, PROPOSED, in discovery, at progress 0, with tasks that
\* are all incomplete.
C10_CreateThenGet ==
    [][/\ (/\ op'.name = "CreateWorkItem"
           /\ op'.s \in ValidTypes
           /\ op'.item # <<>>
           /\ (<<op'.s>> \o op'.item) \notin DOMAIN backlog)
          => result' = "ok"
       /\ (/\ op.name = "CreateWorkItem" /\ result = "ok"
           /\ op'.name = "GetWorkItem" /\ op'.item = <<op.s>> \o op.item)
          => /\ result' = "ok"
             /\ ret'.Name = <<op.s>> \o op.item
             /\ ret'.Title = op.item
             /\ ret'.Type = op.s
             /\ ret'.Status = StatusProposed
             /\ ret'.Phase = PhaseDiscovery
             /\ ret'.Progress = 0
             /\ Len(ret'.Tasks) > 0
             /\ \A k \in 1..Len(ret'.Tasks) : ~ret'.Tasks[k].Completed
      ]_vars

\* An experiment was read back as created, next to a feature and a bug.
C10_Witness ==
    /\ op.name = "GetWorkItem" /\ result = "ok"
    /\ op.item = <<TypeExperiment, "login">>
    /\ ret.Type = TypeExperiment
    /\ ret.Status = StatusProposed
    /\ ret.Progress = 0
    /\ \A k \in 1..Len(ret.Tasks) : ~ret.Tasks[k].Completed
    /\ DOMAIN backlog = StoreNames

-----------------------------------------------------------------------------
(* Properties of the stores *)

\* C11: Create fails with ValidationError when the name is empty, when the
\* type is empty or not feature, bug or experiment, or when the directory
\* "<type>-<name>" is already in the backlog (so a second Create of an item
\* that is still there fails); a rejected Create leaves both stores as they
\* were.  Any other Create succeeds and makes the directory.
C11_CreateRejected ==
    [][op'.name = "CreateWorkItem" =>
          LET dir == getWorkItemDirName(op'.s, op'.item)
          IN  IF \/ op'.item = <<>>
                 \/ op'.s \notin ValidTypes
                 \/ dir \in DOMAIN backlog
              THEN /\ result' = "ValidationError"
                   /\ backlog' = backlog
                   /\ completedDir' = completedDir
              ELSE /\ result' = "ok"
                   /\ dir \in DOMAIN backlog']_vars

\* A second Create of an item that was created and then overridden to
\* COMPLETED has been rejected, and the item still reads COMPLETED.
C11_Witness ==
    /\ op.name = "CreateWorkItem"
    /\ result = "ValidationError"
    /\ op.s = TypeFeature
    /\ op.item = <<"login">>
    /\ Exists(<<"feature", "login">>)
    /\ Item(<<"feature", "login">>).Status = StatusCompleted

-----------------------------------------------------------------------------
(* Properties of the metadata fields *)

\* The kind of metadata line an override operation writes.
FieldOf(opName) ==
    CASE opName = "UpdateStatus" -> "status"
      [] opName = "UpdateProgress" -> "progress"
      [] opName = "AssignWorkItem" -> "assignee"
      [] opName = "SetPhase" -> "phase"
      [] OTHER -> ""

\* A document with the values of its lines of one kind left out.
Frame(doc, k) ==
    [i \in 1..Len(doc) |->
        [j \in 1..Len(doc[i]) |->
            IF doc[i][j].k = k THEN [doc[i][j] EXCEPT !.v = "", !.n = 0]
            ELSE doc[i][j]]]

\* Description, completion and phase of every task of an item.
TaskFacts(item) ==
    [i \in 1..Len(item.Tasks) |->
        <<item.Tasks[i].Description, item.Tasks[i].Completed, item.Tasks[i].Phase>>]

\* C12: an UpdateStatus, UpdateProgress, AssignWorkItem or SetPhase call changes
\* only its own field: the three other metadata fields, every task
\* (description, completion, phase) and all other text of the document are
\* after the call what they were before it.
C12_OnlyOwnField ==
    [][\A n \in ItemNames :
          (FieldOf(op'.name) # "" /\ op'.item = n /\ Exists(n)) =>
            LET before == Item(n)
                after == ItemAfter(n)
                k == FieldOf(op'.name)
            IN  /\ Frame(backlog'[n][README], k) = Frame(Content(n), k)
                /\ TaskFacts(after) = TaskFacts(before)
                /\ k # "status" => after.Status = before.Status
                /\ k # "progress" => after.Progress = before.Progress
                /\ k # "assignee" => after.AssignedTo = before.AssignedTo
                /\ k # "phase" => after.Phase = before.Phase]_vars

\* C13: after a successful UpdateStatus(s), UpdateProgress(p),
\* AssignWorkItem(a) or SetPhase(ph) on an item made by Create, a Get returns
\* s as status, p as progress, a as assignee or ph as phase.
C13_RoundTrip ==
    [][\A n \in ItemNames :
          (FieldOf(op'.name) # "" /\ op'.item = n /\ Exists(n) /\ result' = "ok") =>
            LET after == ItemAfter(n)
            IN  /\ op'.name = "UpdateStatus" => after.Status = op'.s
                /\ op'.name = "UpdateProgress" => after.Progress = op'.n
                /\ op'.name = "AssignWorkItem" => after.AssignedTo = op'.s
                /\ op'.name = "SetPhase" => after.Phase = op'.s]_vars

-----------------------------------------------------------------------------
(* Properties of the overrides *)

-----------------------------------------------------------------------------
(* Properties of the archive and of the listing *)

\* The last call was a successful ArchiveWorkItem(n).
Archived(n) == op.name = "ArchiveWorkItem" /\ op.item = n /\ result = "ok"

\* The last call was a ListWorkItems that returned the item n.
Listed(n) ==
    /\ op.name = "ListWorkItems"
    /\ \E i \in 1..Len(ret.Items) : ret.Items[i].Name = n

\* C16 as the specification states it: after a successful ArchiveWorkItem(n)
\* the README.md of n is in the completed store together with a POSTMORTEM.md,
\* n is not in the backlog, and every later ListWorkItems omits n.
C16_ArchivedForGood ==
    /\ [][\A n \in ArchiveNames :
            (Archived(n)' /\ ReadmeExists(n)) =>
               /\ n \notin DOMAIN backlog'
               /\ n \in DOMAIN completedDir'
               /\ README \in DOMAIN completedDir'[n]
               /\ completedDir'[n][README] = Content(n)
               /\ POSTMORTEM \in DOMAIN completedDir'[n]]_vars
    /\ \A n \in ArchiveNames : [](Archived(n) => [](~Listed(n)))

\* C16: a successful ArchiveWorkItem(n) moves the directory of n with every
\* file it holds from the backlog to the completed store and touches no other
\* backlog directory; the moved directory holds in addition the generated
\* POSTMORTEM.md, or nothing more when that file could not be written.  A
\* directory enters the backlog only by a successful Create of its type and
\* name, and ListWorkItems returns only items of the backlog: the archived
\* item is in no listing until it is created again.
C16_ArchiveMoves ==
    /\ [][\A n \in ArchiveNames :
            Archived(n)' =>
               /\ n \in DOMAIN backlog
               /\ backlog' = Without(backlog, n)
               /\ n \in DOMAIN completedDir'
               /\ DOMAIN completedDir'[n] \in
                     {DOMAIN backlog[n], DOMAIN backlog[n] \cup {POSTMORTEM}}
               /\ \A f \in DOMAIN backlog[n] : completedDir'[n][f] = backlog[n][f]
               /\ POSTMORTEM \in DOMAIN completedDir'[n] =>
                     completedDir'[n][POSTMORTEM] = PostmortemTemplate(n)]_vars
    /\ [][\A n \in StoreNames :
            (n \notin DOMAIN backlog /\ n \in DOMAIN backlog') =>
               /\ op'.name = "CreateWorkItem"
               /\ result' = "ok"
               /\ getWorkItemDirName(op'.s, op'.item) = n]_vars
    /\ [](\A n \in StoreNames : Listed(n) => ReadmeExists(n))

\* A listing with an empty filter made after bug-login was archived with its
\* postmortem: the item is in the completed store and not in the listing.
C16_Witness ==
    /\ op.name = "ListWorkItems"
    /\ op.s = "" /\ op.t = ""
    /\ <<"bug", "login">> \notin DOMAIN backlog
    /\ <<"bug", "login">> \in DOMAIN completedDir
    /\ DOMAIN completedDir[<<"bug", "login">>] = {README, POSTMORTEM}
    /\ completedDir[<<"bug", "login">>][README] = BugReport
    /\ ~Listed(<<"bug", "login">>)

-----------------------------------------------------------------------------
(* Properties of the names without a document *)

\* The operations that take the name of an item.
NameOps ==
    {"GetWorkItem", "UpdateStatus", "UpdateProgress", "AssignWorkItem", "SetPhase",
     "GetPhaseTasks", "CompleteTask", "AdvancePhase", "GetProgressMetrics",
     "ArchiveWorkItem"}

\* C17: an operation that takes a name, called with valid arguments on a
\* name that has no README.md in the backlog, returns not-found and leaves
\* both stores as they were.
C17_MissingIsNotFound ==
    [][\A n \in MissingNames :
          (op'.name \in NameOps /\ op'.item = n /\ ~ReadmeExists(n)) =>
             /\ result' = "NotFound"
             /\ backlog' = backlog
             /\ completedDir' = completedDir]_vars

\* The backlog items a listing with the filter (status, itemType) is to return:
\* those with a README.md that parses, of that status and of that type when
\* the filter names one.
Matching(status, itemType) ==
    {n \in DOMAIN backlog :
        /\ ReadmeExists(n)
        /\ ~ScannerErr(Content(n))
        /\ status # "" => Item(n).Status = status
        /\ itemType # "" => Item(n).Type = itemType}

\* C18: ListWorkItems succeeds and returns, once each, exactly the backlog
\* items whose README.md parses, whose status is the filter's status when that
\* is not empty and whose type is the filter's type when that is not empty,
\* each as it reads in the backlog; a directory without a parseable document
\* is passed over, and nothing of the completed store is returned.
C18_ListMatches ==
    op.name = "ListWorkItems" =>
        /\ result = "ok"
        /\ Len(ret.Items) = Cardinality(Matching(op.s, op.t))
        /\ {ret.Items[i].Name : i \in 1..Len(ret.Items)} = Matching(op.s, op.t)
        /\ \A i \in 1..Len(ret.Items) : ret.Items[i] = Item(ret.Items[i].Name)

\* A listing of the COMPLETED items that returns feature-login alone:
\* bug-login is COMPLETED as well but was archived, and the document of
\* experiment-login, still in the backlog, does not parse.
C18_Witness ==
    /\ op.name = "ListWorkItems"
    /\ op.s = StatusCompleted /\ op.t = ""
    /\ Len(ret.Items) = 1
    /\ ret.Items[1].Name = <<"feature", "login">>
    /\ ReadmeExists(<<"experiment", "login">>)
    /\ <<"bug", "login">> \notin DOMAIN backlog
    /\ <<"bug", "login">> \in DOMAIN completedDir
    /\ README \in DOMAIN completedDir[<<"bug", "login">>]
    /\ ParseWorkItem(<<"bug", "login">>,
                     completedDir[<<"bug", "login">>][README]).Status = StatusCompleted

-----------------------------------------------------------------------------
(* Properties of the metrics *)

\* The positions of the tasks of an item, all or those of one phase, and the
\* completed ones among them.
TaskPositions(item, phases) ==
    {i \in 1..Len(item.Tasks) : item.Tasks[i].Phase \in phases}
DonePositions(item, phases) ==
    {i \in TaskPositions(item, phases) : item.Tasks[i].Completed}

\* pct is the largest integer not above 100 * done / total, and 0 without tasks.
IsFloorPercent(pct, done, total) ==
    IF total = 0 THEN pct = 0
    ELSE pct * total <= 100 * done /\ 100 * done < (pct + 1) * total

\* C19: GetProgressMetrics reports the number of tasks, the number of
\* completed ones and OverallProgress = floor(100 * completed / total), 0
\* without tasks; it reports one entry for each of discovery, planning,
\* execution and cleanup, in that order, with the same numbers over the tasks
\* of that phase, and the totals and completed counts of the entries add up to
\* the overall ones.
C19_FloorPercent ==
    \A n \in ItemNames :
        Did("GetProgressMetrics", n, "ok") =>
            LET item == Item(n)
                all == {PhaseDiscovery, PhasePlanning, PhaseExecution, PhaseCleanup}
                pp == ret.PhaseProgress
            IN  /\ ret.TotalTasks = Cardinality(TaskPositions(item, all))
                /\ ret.CompletedTasks = Cardinality(DonePositions(item, all))
                /\ IsFloorPercent(ret.OverallProgress, ret.CompletedTasks, ret.TotalTasks)
                /\ Len(pp) = 4
                /\ <<pp[1].Phase, pp[2].Phase, pp[3].Phase, pp[4].Phase>> =
                      <<PhaseDiscovery, PhasePlanning, PhaseExecution, PhaseCleanup>>
                /\ \A i \in 1..4 :
                      /\ pp[i].TotalTasks = Cardinality(TaskPositions(item, {pp[i].Phase}))
                      /\ pp[i].CompletedTasks = Cardinality(DonePositions(item, {pp[i].Phase}))
                      /\ IsFloorPercent(pp[i].ProgressPercent, pp[i].CompletedTasks,
                                        pp[i].TotalTasks)
                /\ pp[1].TotalTasks + pp[2].TotalTasks + pp[3].TotalTasks + pp[4].TotalTasks
                      = ret.TotalTasks
                /\ pp[1].CompletedTasks + pp[2].CompletedTasks + pp[3].CompletedTasks
                      + pp[4].CompletedTasks = ret.CompletedTasks

\* The metrics of an item with three tasks of which the two discovery tasks
\* are completed: 66 overall, 100 for discovery, 0 for planning and 0 for the
\* two phases without tasks.
C19_Witness ==
    \E n \in ItemNames :
        /\ Did("GetProgressMetrics", n, "ok")
        /\ ret.TotalTasks = 3
        /\ ret.CompletedTasks = 2
        /\ ret.OverallProgress = 66
        /\ ret.PhaseProgress[1].ProgressPercent = 100
        /\ ret.PhaseProgress[2].TotalTasks = 1
        /\ ret.PhaseProgress[2].ProgressPercent = 0
        /\ ret.PhaseProgress[3].TotalTasks = 0
        /\ ret.PhaseProgress[3].ProgressPercent = 0

-----------------------------------------------------------------------------
(* Properties of the read-only operations *)

ReadOnlyOps == {"GetWorkItem", "ListWorkItems", "GetPhaseTasks", "GetProgressMetrics"}

\* C20: GetWorkItem, ListWorkItems, GetPhaseTasks and GetProgressMetrics leave
\* every directory and every document of the backlog and of the completed
\* store as they were, whatever they return; computing the metrics does not
\* write the progress.
C20_ReadOnly ==
    [][op'.name \in ReadOnlyOps =>
          /\ backlog' = backlog
          /\ completedDir' = completedDir
          /\ config' = config]_vars

\* Metrics of bug-login that report 50 overall while its document still
\* says 0%.
C20_Witness ==
    /\ Did("GetProgressMetrics", <<"bug", "login">>, "ok")
    /\ ret.OverallProgress = 50
    /\ Item(<<"bug", "login">>).Progress = 0

-----------------------------------------------------------------------------
(* Properties of the side effects *)

\* The line AdvancePhase prints when the write of the auto-assignment fails.
AssignFailed == "Warning: Could not auto-assign work item to"

\* C21: a failure of a side effect is never returned.  An AdvancePhase that
\* passes the gate and has a table row returns success with the row's phase
\* and status written, and with progress and tasks as they were, whatever the
\* git client answers to the user-name lookup and to the branch request and
\* whether or not the auto-assign write succeeds; an ArchiveWorkItem whose
\* move succeeds returns success with the document in the completed store
\* whether or not the postmortem is written; a Create whose document is
\* written returns the item it parses from it whatever the git client answers.
C21_SideEffectsNotEscalated ==
    /\ [][\A n \in ItemNames :
            Called("AdvancePhase", n) =>
              LET before == Item(n)
                  after == ItemAfter(n)
              IN  (/\ before.Status \in Advanceable
                   /\ (before.Status = StatusProposed \/ CurrentPhaseDone(before)))
                  => /\ result' = "ok"
                     /\ <<after.Phase, after.Status>> = AdvanceTable[before.Status]
                     /\ after.Progress = before.Progress
                     /\ TaskFacts(after) = TaskFacts(before)]_vars
    /\ [][\A n \in ItemNames :
            (op'.name = "ArchiveWorkItem" /\ op'.item = n /\ Exists(n)) =>
               /\ result' = "ok"
               /\ n \notin DOMAIN backlog'
               /\ n \in DOMAIN completedDir'
               /\ completedDir'[n][README] = Content(n)]_vars
    /\ [][op'.name = "CreateWorkItem" =>
            LET dir == getWorkItemDirName(op'.s, op'.item)
            IN  (dir \notin DOMAIN backlog /\ dir \in DOMAIN backlog'
                 /\ README \in DOMAIN backlog'[dir])
                => /\ result' = "ok"
                   /\ ret' = ParseWorkItem(dir, backlog'[dir][README])
                   /\ ret'.Status = StatusProposed]_vars


\* The names the service printed with this text in its last operation.
Printed(cs, text) ==
    {g \in {u.name : u \in GitUsers} :
        \E i \in 1..Len(cs) : cs[i] = Call("Printf", <<text, g>>)}

AssignedLine == "Auto-assigned work item to"

\* C22: a successful AdvancePhase changes the assignee exactly when the new
\* phase is execution, auto-assignment is enabled, the assignee was empty or
\* "human" and the git user-name lookup gave a non-empty name, and then the
\* assignee is that name; in every other case the assignee is the one the
\* item had.  (An auto-assignment whose write failed is left open.)
C22_AutoAssignment ==
    [][\A n \in ItemNames :
        (Called("AdvancePhase", n) /\ result' = "ok")
            => LET before == Item(n)
                   after == ItemAfter(n)
                   eligible == /\ AdvanceTable[before.Status][1] = PhaseExecution
                               /\ config.AutoAssignAgent
                               /\ before.AssignedTo \in {"", "human"}
               IN  /\ \A g \in Printed(calls', AssignedLine) :
                          eligible /\ after.AssignedTo = g
                   /\ (~eligible \/ Printed(calls', AssignedLine)
                                      \cup Printed(calls', AssignFailed) = {})
                          => after.AssignedTo = before.AssignedTo]_vars


\* The progress of every item of the backlog is an integer from 0 to 100.
ProgressInRange ==
    \A n \in DOMAIN backlog : Exists(n) => Item(n).Progress \in 0..100

C24_NamesUnique ==
    [][/\ op'.name = "ListWorkItems"
          => \A i, j \in 1..Len(ret'.Items) :
                ret'.Items[i].Name = ret'.Items[j].Name => i = j
       /\ (/\ op'.name = "CreateWorkItem"
           /\ op'.s \in ValidTypes /\ op'.item # <<>>
           /\ getWorkItemDirName(op'.s, op'.item) \in DOMAIN backlog)
          => result' # "ok" /\ backlog' = backlog
       /\ \A n \in DOMAIN completedDir :
             DOMAIN completedDir[n] # {}
                => /\ n \in DOMAIN completedDir'
                   /\ completedDir'[n] = completedDir[n]
                   /\ (op'.name = "ArchiveWorkItem" /\ op'.item = n /\ n \in DOMAIN backlog)
                         => result' = "MoveError" /\ backlog' = backlog]_vars

\* feature-login was created, archived and created again, and its second
\* archive has just been refused: both stores hold one item of the name.
C24_Witness ==
    /\ op.name = "ArchiveWorkItem" /\ op.item = <<"feature", "login">>
    /\ result = "MoveError"
    /\ Exists(<<"feature", "login">>)
    /\ <<"feature", "login">> \in DOMAIN completedDir
    /\ README \in DOMAIN completedDir[<<"feature", "login">>]


\* C25: with git integration disabled no operation asks the git client to
\* create a branch.
C25_NoBranchWithoutGit ==
    ~config.EnableGit => \A i \in 1..Len(calls) : calls[i].call # "CreateBranch"


\* The commands of the documented workflow that take the item's name.
WorkflowCommands == {"AdvancePhase", "CompleteTask", "UpdateProgress", "ArchiveWorkItem"}

\* C26: once "new feature login" has created the item, the workflow commands
\* given the same name "login" find it.
C26_SameName ==
    [][(/\ Exists(getWorkItemDirName(TypeFeature, <<"login">>))
        /\ op'.name \in WorkflowCommands
        /\ op'.item = <<"login">>)
          => result' # "NotFound"]_vars


\* C27: AdvancePhase reads the status, not the phase.  Whatever phase a
\* SetPhase left in the document, a successful AdvancePhase writes the phase
\* and the status that the table gives for the status the item had.
C27_StatusDecides ==
    [][\A n \in ItemNames :
          (Called("AdvancePhase", n) /\ result' = "ok")
              => /\ Item(n).Status \in Advanceable
                 /\ \A p \in ValidPhases :
                       Item(n).Phase = p
                          => <<ItemAfter(n).Phase, ItemAfter(n).Status>>
                                = AdvanceTable[Item(n).Status]]_vars

\* An AdvancePhase took the item from IN_PROGRESS_DISCOVERY to planning while
\* a discovery task was open: the phase had been set to one without tasks.
C27_Witness ==
    /\ Did("AdvancePhase", <<"feature", "login">>, "ok")
    /\ Item(<<"feature", "login">>).Phase = PhasePlanning
    /\ Item(<<"feature", "login">>).Status = StatusInProgressPlanning
    /\ \E i \in 1..Len(Item(<<"feature", "login">>).Tasks) :
          /\ Item(<<"feature", "login">>).Tasks[i].Phase = PhaseDiscovery
          /\ ~Item(<<"feature", "login">>).Tasks[i].Completed


\* The call at position i of the last operation comes after a call of c.
After(i, c) == \E j \in 1..(i - 1) : calls[j].call = c

GitRequests == {"GetGitUserName", "BranchExists", "CreateBranch"}

\* C28: the order of the effects within an operation.  In AdvancePhase the
\* write of the new phase and status precedes the git user-name lookup, the
\* auto-assign write (the second write) and the branch requests, and a
\* rejected advance makes none of them; ArchiveWorkItem moves the directory
\* before it writes the postmortem; CreateWorkItem writes the document before
\* it asks for a branch.
C28_Ordering ==
    /\ op.name = "AdvancePhase"
          => /\ \A i \in 1..Len(calls) :
                   calls[i].call \in GitRequests => After(i, "WriteFile")
             /\ \A i \in 1..Len(calls) :
                   (calls[i].call = "WriteFile" /\ After(i, "WriteFile"))
                      => After(i, "GetGitUserName")
             /\ result = "PhaseError"
                   => \A i \in 1..Len(calls) :
                         calls[i].call \notin GitRequests \cup {"WriteFile"}
    /\ op.name = "ArchiveWorkItem"
          => \A i \in 1..Len(calls) :
                calls[i].call = "WriteFile" => After(i, "MoveDirectory")
    /\ op.name = "CreateWorkItem"
          => \A i \in 1..Len(calls) :
                calls[i].call \in GitRequests => After(i, "WriteFile")

\* An advance into execution that looked the git user up, wrote the assignee
\* and asked for the branch of the phase.
C28_Witness ==
    /\ Did("AdvancePhase", <<"feature", "login">>, "ok")
    /\ Item(<<"feature", "login">>).Phase = PhaseExecution
    /\ Printed(calls, AssignedLine) # {}
    /\ \E i \in 1..Len(calls) : calls[i].call = "CreateBranch"


\* The operations that change an item's document.
MutatingOps ==
    {"UpdateStatus", "UpdateProgress", "AssignWorkItem", "SetPhase", "CompleteTask",
     "AdvancePhase"}

\* C29: a mutating operation that succeeds writes the document once, so no
\* intermediate state of the operation is on disk.
C29_SingleWrite ==
    (op.name \in MutatingOps /\ result = "ok")
        => Cardinality({i \in 1..Len(calls) : calls[i].call = "WriteFile"}) = 1


\* Every directory of the backlog holds a README.md that parses.
BackedByDocument ==
    \A d \in DOMAIN backlog : README \in DOMAIN backlog[d] /\ ~ScannerErr(backlog[d][README])

\* C30: every directory of the backlog has a readable document in every
\* state, also after a Create that failed; a name without a document is not
\* found by Get and a Create of it is not rejected as existing.
C30_BacklogIntegrity ==
    /\ []BackedByDocument
    /\ [][\A n \in CommandNames \cup {<<>>} :
             LET dir == getWorkItemDirName(TypeFeature, <<"login">>)
             IN  ~Exists(dir)
                   => /\ (op'.name = "GetWorkItem" /\ op'.item = dir)
                            => result' = "NotFound"
                      /\ (op'.name = "CreateWorkItem" /\ op'.item = <<"login">>)
                            => result' # "ValidationError"]_vars


-----------------------------------------------------------------------------
(* Properties of the parser *)

\* The phase a heading "## <Word> Phase" names, "" for any other word.
HeadingPhase(word) ==
    CASE word = "Discovery" -> PhaseDiscovery
      [] word = "Planning" -> PhasePlanning
      [] word = "Execution" -> PhaseExecution
      [] word = "Cleanup" -> PhaseCleanup
      [] OTHER -> ""

\* The lines of doc that are task lines, and the section a line lies in: the
\* phase of the last heading above it that names a phase, discovery without one.
TaskLinesOf(doc) == {i \in 1..Len(doc) : doc[i][1].k = "task"}
HeadingsAbove(doc, i) ==
    {h \in 1..(i - 1) : doc[h][1].k = "section" /\ HeadingPhase(doc[h][1].v) # ""}
SectionOf(doc, i) ==
    IF HeadingsAbove(doc, i) = {} THEN PhaseDiscovery
    ELSE HeadingPhase(doc[CHOOSE h \in HeadingsAbove(doc, i) :
                              \A g \in HeadingsAbove(doc, i) : g <= h][1].v)

HasLine(doc, k) == \E i \in 1..Len(doc) : doc[i][1].k = k

\* C32: parsing fails only when the document cannot be read.  GetWorkItem on
\* a name that has a document succeeds; a field whose line is missing has its
\* default (status "UNKNOWN", phase discovery, progress 0, assignee ""), and
\* a name without a type prefix leaves the type unset.
C32_ParseNeverFails ==
    \A n \in DOMAIN backlog :
        (op.name = "GetWorkItem" /\ op.item = n /\ Exists(n))
            => /\ result = "ok"
               /\ ~HasLine(Content(n), "status") => ret.Status = "UNKNOWN"
               /\ ~HasLine(Content(n), "phase") => ret.Phase = PhaseDiscovery
               /\ ~HasLine(Content(n), "progress") => ret.Progress = 0
               /\ ~HasLine(Content(n), "assignee") => ret.AssignedTo = ""
               /\ n = <<"login">> => ret.Type = ""


\* C33: an update of a field whose metadata line the document lacks inserts
\* the line: after a successful UpdateStatus, UpdateProgress, AssignWorkItem
\* or SetPhase on such a document the parsed item has the value just given.
C33_InsertWhenAbsent ==
    [][\A n \in ItemNames :
          (/\ FieldOf(op'.name) # "" /\ op'.item = n /\ Exists(n) /\ result' = "ok"
           /\ ~HasKind(Content(n), FieldOf(op'.name)))
            => LET after == ItemAfter(n)
               IN  /\ HasKind(backlog'[n][README], FieldOf(op'.name))
                   /\ op'.name = "UpdateStatus" => after.Status = op'.s
                   /\ op'.name = "UpdateProgress" => after.Progress = op'.n
                   /\ op'.name = "AssignWorkItem" => after.AssignedTo = op'.s
                   /\ op'.name = "SetPhase" => after.Phase = op'.s]_vars


-----------------------------------------------------------------------------
(* Properties of invocations that overlap *)

\* The invocation has written its change to the file.
Wrote(d) ==
    \/ inflight[d].pc = "done" /\ inflight[d].res = "ok"
    \/ inflight[d].name = "CompleteTask" /\ inflight[d].stage = 2

\* The step is a write of the invocation c.
Writes(c) == inflight[c].pc = "write" /\ inflight'[c] # inflight[c]

\* C34: no lock and no conflict detection.  When an invocation writes the
\* content it made of what it had read before another invocation's change
\* was written, that change (an assignee, a progress, a completed task) is
\* gone from the document after the write, and the write is not refused: the
\* call that ends with it returns success.
C34_LostUpdate ==
    [][\A c \in Callers : Writes(c) =>
          LET me == inflight[c]
              stale == ParseWorkItem(ConcurrentItem, me.buf)
              before == Item(ConcurrentItem)
              after == ItemAfter(ConcurrentItem)
          IN  /\ inflight'[c].pc = "done" => result' = "ok" /\ inflight'[c].res = "ok"
              /\ \A d \in Callers \ {c} : Wrote(d) =>
                    /\ (/\ inflight[d].name = "AssignWorkItem"
                        /\ me.name # "AssignWorkItem"
                        /\ stale.AssignedTo # before.AssignedTo)
                          => after.AssignedTo = stale.AssignedTo
                    /\ (/\ inflight[d].name = "UpdateProgress"
                        /\ me.name = "AssignWorkItem"
                        /\ stale.Progress # before.Progress)
                          => after.Progress = stale.Progress
                    /\ (/\ inflight[d].name = "CompleteTask"
                        /\ ~(me.name = "CompleteTask" /\ me.stage = 1 /\ me.g = inflight[d].g)
                        /\ ~stale.Tasks[inflight[d].g + 1].Completed)
                          => ~after.Tasks[inflight[d].g + 1].Completed]_vars

\* CompleteTask(0) and CompleteTask(1) ran at the same time and both returned
\* success; one of the two tasks is not completed.
C34_Witness ==
    /\ \A c \in Callers :
          /\ inflight[c].pc = "done" /\ inflight[c].res = "ok"
          /\ inflight[c].name = "CompleteTask"
    /\ inflight[1].n = 0 /\ inflight[2].n = 1
    /\ inflight[1].g # inflight[2].g
    /\ \E c \in Callers : ~Item(ConcurrentItem).Tasks[inflight[c].g + 1].Completed


-----------------------------------------------------------------------------
(* Properties of the task list *)

\* C35: the tasks of an item only ever change by a successful CompleteTask,
\* which leaves every description and phase, keeps every completed task
\* completed and completes at most one more task.
C35_TasksMonotone ==
    [][\A n \in ItemNames :
          (Exists(n) /\ n \in DOMAIN backlog' /\ README \in DOMAIN backlog'[n]) =>
             LET before == Item(n).Tasks
                 after == ItemAfter(n).Tasks
             IN  IF op'.name = "CompleteTask" /\ op'.item = n /\ result' = "ok"
                 THEN /\ Len(after) = Len(before)
                      /\ \A i \in 1..Len(before) :
                            /\ after[i].Description = before[i].Description
                            /\ after[i].Phase = before[i].Phase
                            /\ before[i].Completed => after[i].Completed
                      /\ Cardinality({i \in 1..Len(before) :
                                         after[i].Completed /\ ~before[i].Completed}) <= 1
                 ELSE TaskFacts(ItemAfter(n)) = TaskFacts(Item(n))]_vars


-----------------------------------------------------------------------------
(* Properties of the life of an item without overrides *)

\* The phase that corresponds to a status.
PhaseOfStatus ==
    (StatusProposed :> PhaseDiscovery)
    @@ (StatusInProgressDiscovery :> PhaseDiscovery)
    @@ (StatusInProgressPlanning :> PhasePlanning)
    @@ (StatusInProgressExecution :> PhaseExecution)
    @@ (StatusInProgressCleanup :> PhaseCleanup)
    @@ (StatusInProgressReview :> PhaseCleanup)
    @@ (StatusCompleted :> PhaseCleanup)

PhaseDone(item, phase) ==
    \A i \in 1..Len(item.Tasks) :
        item.Tasks[i].Phase = phase => item.Tasks[i].Completed

\* C37: the gate of AdvancePhase is keyed on the phase field.  From a status
\* other than PROPOSED an AdvancePhase succeeds exactly when every task of
\* the phase written in the document is completed (a phase without tasks
\* included), whatever the tasks of the status's own phase; where the phase
\* field is the one of the status, as in runs without SetPhase and
\* UpdateStatus, a successful advance implies that every task of the phase
\* that is left was completed.
C37_GateOnPhaseField ==
    [][\A n \in ItemNames :
          (/\ Called("AdvancePhase", n)
           /\ Item(n).Status \in Advanceable \ {StatusProposed})
              => /\ (result' = "ok") <=> PhaseDone(Item(n), Item(n).Phase)
                 /\ (/\ result' = "ok"
                     /\ Item(n).Phase = PhaseOfStatus[Item(n).Status])
                        => PhaseDone(ItemAfter(n), PhaseOfStatus[Item(n).Status])]_vars

\* An AdvancePhase took the item to IN_PROGRESS_EXECUTION while the task of
\* the planning phase was open: SetPhase had moved the phase field to a phase
\* whose tasks were all completed.
C37_Witness ==
    /\ Did("AdvancePhase", <<"feature", "login">>, "ok")
    /\ Item(<<"feature", "login">>).Status = StatusInProgressExecution
    /\ ~PhaseDone(Item(<<"feature", "login">>), PhasePlanning)


-----------------------------------------------------------------------------
(* Properties of the archive and the workflow *)

\* The item read from the README.md that the completed store holds under the
\* name.
ArchivedItem(n) == ParseWorkItem(n, completedDir[n][README])

\* The workflow fields of an item.
WorkflowFields(item) ==
    <<item.Status, item.Phase, item.Progress, TaskFacts(item)>>

Free(n) == n \in DOMAIN completedDir /\ ~ReadmeExists(n)

\* C40: after a successful ArchiveWorkItem(n) the name is free in the
\* backlog.  As long as no Create of it has succeeded, every operation that
\* takes the name (Get, the updates, CompleteTask, AdvancePhase, a second
\* Archive), called with valid arguments, returns not-found and leaves the
\* completed store as it is; a document of that name enters the backlog only
\* by a successful Create, and it is a fresh item at status PROPOSED.
C40_NameIsFree ==
    [][\A n \in CommandNames :
          Free(n) =>
             /\ (/\ op'.name \in NameOps
                 /\ op'.item = n
                 /\ op'.name = "UpdateProgress" => op'.n \in 0..100)
                   => /\ result' = "NotFound"
                      /\ completedDir' = completedDir
             /\ ReadmeExists(n)'
                   => /\ op'.name = "CreateWorkItem"
                      /\ result' = "ok"
                      /\ ItemAfter(n).Status = StatusProposed
                      /\ ItemAfter(n).Phase = PhaseDiscovery
                      /\ ItemAfter(n).Progress = 0
                      /\ completedDir' = completedDir]_vars

=============================================================================
